---- MODULE Spec2Model ----
(***************************************************************************)
(* Model of the Motec -> CarSim variable matcher (match_variables.py) and  *)
(* of the high-confidence exporter's resolve step                          *)
(* (export_matched_data.py).                                               *)
(*                                                                         *)
(* Text is a sequence of one-character strings, so that substring search,  *)
(* case mapping and regular-expression removal are computed character by   *)
(* character.  A confidence is kept in hundredths (1.0 is 100, 0.95 is 95).*)
(***************************************************************************)
EXTENDS Integers, Sequences, FiniteSets, TLC

VARIABLES
    dictionary,           \* self.dictionary
    motec_headers,        \* self.motec_headers
    carsim_headers,       \* self.carsim_headers
    loaded,               \* which of main's load_* calls have run
    run_pc,               \* position inside run_matching (0: not called)
    all_matches,          \* run_matching's local list
    matches,              \* self.matches
    matched_file,         \* the CSV written by save_results, read by the exporter
    confidence_threshold, \* the exporter's argument (hundredths)
    unique_matches,       \* the exporter's kept list
    skipped_matches,      \* the exporter's skipped list
    export_state,         \* how the last exporter call ended, what it loaded and wrote
    previous_export,      \* threshold and kept count of the exporter call before the last
    text1,                \* the text handed to a text helper called on its own
    text2,                \* the second text of a comparison
    returned              \* the helper called last and the value it returned

vars == <<dictionary, motec_headers, carsim_headers, loaded, run_pc, all_matches, matches,
          matched_file, confidence_threshold, unique_matches, skipped_matches,
          export_state, previous_export, text1, text2, returned>>

text_vars == <<text1, text2, returned>>

matcher_vars ==
    <<dictionary, motec_headers, carsim_headers, loaded, run_pc, all_matches, matches>>

export_vars == <<confidence_threshold, unique_matches, skipped_matches, export_state,
                 previous_export>>

-----------------------------------------------------------------------------
(* Text primitives *)

Range(seq) == {seq[i] : i \in DOMAIN seq}

\* the elements of a sequence of sequences, joined in order
RECURSIVE Concat(_)
Concat(seqs) == IF seqs = <<>> THEN <<>> ELSE Head(seqs) \o Concat(Tail(seqs))

UpperLetters == <<"A","B","C","D","E","F","G","H","I","J","K","L","M","N","O","P","Q","R","S","T","U","V","W","X","Y","Z">> (* ABCDEFGHIJKLMNOPQRSTUVWXYZ *)

LowerLetters == <<"a","b","c","d","e","f","g","h","i","j","k","l","m","n","o","p","q","r","s","t","u","v","w","x","y","z">> (* abcdefghijklmnopqrstuvwxyz *)

Digits == <<"0","1","2","3","4","5","6","7","8","9">> (* 0123456789 *)

\* the characters the pattern [^a-z0-9] keeps
AlnumLower == Range(LowerLetters) \cup Range(Digits)

\* the characters the pattern \s matches
Whitespace == {" ", "\t", "\n", "\r", "\f"}

\* str.lower and str.upper, a character at a time
LowerOf ==
    [c \in Range(UpperLetters) |->
        LowerLetters[CHOOSE i \in DOMAIN UpperLetters : UpperLetters[i] = c]]

UpperOf ==
    [c \in Range(LowerLetters) |->
        UpperLetters[CHOOSE i \in DOMAIN LowerLetters : LowerLetters[i] = c]]

char_lower(c) == IF c \in DOMAIN LowerOf THEN LowerOf[c] ELSE c

char_upper(c) == IF c \in DOMAIN UpperOf THEN UpperOf[c] ELSE c

str_lower(text) == [i \in 1..Len(text) |-> char_lower(text[i])]

str_upper(text) == [i \in 1..Len(text) |-> char_upper(text[i])]

\* Python's `sub in text` for strings
Contains(sub, text) ==
    \E k \in 0..(Len(text) - Len(sub)) : \A i \in 1..Len(sub) : text[k + i] = sub[i]

\* dict.get(key, default)
dict_get(d, key, default) == IF key \in DOMAIN d THEN d[key] ELSE default

-----------------------------------------------------------------------------
(* VehicleTelemetryMatcher: tables and text helpers *)

position_map ==
    (<<"F","L">> (* FL *) :> <<"L","1">> (* L1 *)) @@ (<<"F","R">> (* FR *) :> <<"R","1">> (* R1 *)) @@ (<<"R","L">> (* RL *) :> <<"L","2">> (* L2 *)) @@ (<<"R","R">> (* RR *) :> <<"R","2">> (* R2 *))

\* reverse_position_map holding the front axle only
reverse_position_map_front_axle ==
    (<<"L","1">> (* L1 *) :> <<"F","L">> (* FL *)) @@ (<<"R","1">> (* R1 *) :> <<"F","R">> (* FR *))

reverse_position_map ==
    [v \in {position_map[k] : k \in DOMAIN position_map} |->
        CHOOSE k \in DOMAIN position_map : position_map[k] = v]

\* normalize_text without .lower()
normalize_text_keep_case(text) ==
    SelectSeq(text, LAMBDA c : c \in AlnumLower \cup Range(UpperLetters))

normalize_text(text) == SelectSeq(str_lower(text), LAMBDA c : c \in AlnumLower)

remove_whitespace(text) == SelectSeq(text, LAMBDA c : c \notin Whitespace)

\* extract_position returning a CarSim token as found
extract_position_untranslated(text) ==
    LET text_upper == str_upper(text)
        found == SelectSeq(<<<<"F","L">> (* FL *), <<"F","R">> (* FR *), <<"R","L">> (* RL *), <<"R","R">> (* RR *), <<"L","1">> (* L1 *), <<"R","1">> (* R1 *), <<"L","2">> (* L2 *), <<"R","2">> (* R2 *)>>,
                           LAMBDA pos : Contains(pos, text_upper))
    IN  IF found # <<>> THEN Head(found) ELSE <<>>

extract_position(text) ==
    LET text_upper == str_upper(text)
        motec_found == SelectSeq(<<<<"F","L">> (* FL *), <<"F","R">> (* FR *), <<"R","L">> (* RL *), <<"R","R">> (* RR *)>>,
                                 LAMBDA pos : Contains(pos, text_upper))
        carsim_found == SelectSeq(<<<<"L","1">> (* L1 *), <<"R","1">> (* R1 *), <<"L","2">> (* L2 *), <<"R","2">> (* R2 *)>>,
                                  LAMBDA pos : Contains(pos, text_upper))
    IN  IF motec_found # <<>> THEN Head(motec_found)
        ELSE IF carsim_found # <<>>
             THEN dict_get(reverse_position_map, Head(carsim_found), <<>>)
             ELSE <<>>

map_position_motec_to_carsim(motec_pos) == dict_get(position_map, motec_pos, <<>>)

\* re.sub(r'\([^)]*\)', '', text): scanning from the left, a "(" with a ")" somewhere
\* after it is removed together with everything up to the first such ")"
RECURSIVE remove_parenthesized(_)
remove_parenthesized(text) ==
    IF text = <<>> THEN <<>>
    ELSE IF Head(text) = "(" /\ \E k \in 2..Len(text) : text[k] = ")"
         THEN LET close == CHOOSE k \in 2..Len(text) :
                               /\ text[k] = ")"
                               /\ \A j \in 2..(k - 1) : text[j] # ")"
              IN  remove_parenthesized(SubSeq(text, close + 1, Len(text)))
         ELSE <<Head(text)>> \o remove_parenthesized(Tail(text))

\* the characters the pattern \w matches
WordChars == Range(LowerLetters) \cup Range(UpperLetters) \cup Range(Digits) \cup {"_"}

\* re.findall(r'\w+', text): the maximal runs of word characters, left to right
RECURSIVE findall_words(_, _)
findall_words(text, run) ==
    IF text = <<>> THEN (IF run = <<>> THEN <<>> ELSE <<run>>)
    ELSE IF Head(text) \in WordChars
         THEN findall_words(Tail(text), Append(run, Head(text)))
         ELSE (IF run = <<>> THEN <<>> ELSE <<run>>) \o findall_words(Tail(text), <<>>)

stopwords ==
    {<<"t","h","e">> (* the *), <<"o","f">> (* of *), <<"f","o","r">> (* for *), <<"a","t">> (* at *), <<"i","n">> (* in *), <<"o","n">> (* on *), <<"t","o">> (* to *), <<"a">> (* a *), <<"a","n">> (* an *), <<"a","n","d">> (* and *), <<"i","s">> (* is *)}

extract_tokens(text) ==
    LET normalized == normalize_text(remove_parenthesized(text))
        tokens == findall_words(normalized, <<>>)
    IN  SelectSeq(tokens, LAMBDA t : t \notin stopwords)

\* self.semantic_equivalents, in the order of the dict
semantic_equivalents ==
    << [key |-> <<"g","f","o","r","c","e">> (* gforce *), equivalents |-> <<<<"a","c","c","e","l">> (* accel *), <<"a","c","c","e","l","e","r","a","t","i","o","n">> (* acceleration *), <<"a">> (* a *)>>],
       [key |-> <<"g","y","r","o">> (* gyro *), equivalents |-> <<<<"r","a","t","e">> (* rate *), <<"a","v">> (* av *), <<"a","n","g","u","l","a","r","v","e","l","o","c","i","t","y">> (* angularvelocity *)>>],
       [key |-> <<"s","p","e","e","d">> (* speed *), equivalents |-> <<<<"v","e","l","o","c","i","t","y">> (* velocity *), <<"v">> (* v *), <<"s","p","i","n">> (* spin *)>>],
       [key |-> <<"s","u","s","p">> (* susp *),
        equivalents |-> <<<<"s","u","s","p","e","n","s","i","o","n">> (* suspension *), <<"j","o","u","n","c","e">> (* jounce *), <<"c","o","m","p","r","e","s","s","i","o","n">> (* compression *), <<"c","m","p">> (* cmp *)>>],
       [key |-> <<"b","r","a","k","e">> (* brake *), equivalents |-> <<<<"b","k">> (* bk *), <<"p","b","k">> (* pbk *)>>],
       [key |-> <<"t","e","m","p">> (* temp *), equivalents |-> <<<<"t","e","m","p","e","r","a","t","u","r","e">> (* temperature *), <<"t">> (* t *)>>],
       [key |-> <<"r","o","t","o","r">> (* rotor *), equivalents |-> <<<<"r","t","r">> (* rtr *)>>],
       [key |-> <<"w","h","e","e","l">> (* wheel *), equivalents |-> <<<<"w","h","l">> (* whl *)>>],
       [key |-> <<"e","n","g","i","n","e">> (* engine *), equivalents |-> <<<<"e","n","g">> (* eng *)>>],
       [key |-> <<"t","h","r","o","t","t","l","e">> (* throttle *), equivalents |-> <<<<"t","h","r">> (* thr *)>>],
       [key |-> <<"s","t","e","e","r">> (* steer *), equivalents |-> <<<<"s","t","r">> (* str *)>>],
       [key |-> <<"f","u","e","l">> (* fuel *), equivalents |-> <<<<"q","f","u","e","l">> (* qfuel *), <<"m","f","u","e","l">> (* mfuel *)>>] >>

\* min(a, b)
Min(a, b) == IF a <= b THEN a ELSE b

\* the pairs (t1, t2) of the two loops for which semantic_matches is incremented
SemanticPairs(tokens1, tokens2) ==
    {pair \in tokens1 \X tokens2 :
        /\ pair[1] # pair[2]
        /\ \E e \in DOMAIN semantic_equivalents :
               /\ (pair[1] = semantic_equivalents[e].key
                   \/ pair[1] \in Range(semantic_equivalents[e].equivalents))
               /\ (pair[2] = semantic_equivalents[e].key
                   \/ pair[2] \in Range(semantic_equivalents[e].equivalents))}

\* the equivalence test taking only t1 as a key and only t2 as an equivalent
SemanticPairs_key_to_equivalent(tokens1, tokens2) ==
    {pair \in tokens1 \X tokens2 :
        /\ pair[1] # pair[2]
        /\ \E e \in DOMAIN semantic_equivalents :
               /\ pair[1] = semantic_equivalents[e].key
               /\ pair[2] \in Range(semantic_equivalents[e].equivalents)}

\* the score of two token sets, in hundredths; the quotient is exact for the token
\* sets extract_tokens returns (a union of one or two tokens)
Score(tokens1, tokens2, semantic_matches) ==
    IF tokens1 = {} \/ tokens2 = {} THEN 0
    ELSE LET intersection == Cardinality(tokens1 \cap tokens2)
             union == Cardinality(tokens1 \cup tokens2)
             direct_score == IF union > 0 THEN (100 * intersection) \div union ELSE 0
             semantic_boost == Min(semantic_matches * 10, 30)
         IN  Min(direct_score + semantic_boost, 100)

\* semantic_similarity with the asymmetric equivalence test
semantic_similarity_key_to_equivalent(t1, t2) ==
    LET tokens1 == Range(extract_tokens(t1))
        tokens2 == Range(extract_tokens(t2))
    IN  Score(tokens1, tokens2,
              Cardinality(SemanticPairs_key_to_equivalent(tokens1, tokens2)))

\* semantic_similarity without the semantic boost
semantic_similarity_direct_only(t1, t2) ==
    Score(Range(extract_tokens(t1)), Range(extract_tokens(t2)), 0)

semantic_similarity(t1, t2) ==
    LET tokens1 == Range(extract_tokens(t1))
        tokens2 == Range(extract_tokens(t2))
    IN  Score(tokens1, tokens2, Cardinality(SemanticPairs(tokens1, tokens2)))

\* self.dictionary is None until load_dictionary has run
NoDictionary == [loaded |-> FALSE, rows |-> <<>>]

\* load_dictionary: rows of the first two columns, with the whitespace-free forms
DictionaryOf(table) ==
    [loaded |-> TRUE,
     rows |-> [i \in 1..Len(table) |->
                 [shorthand |-> table[i][1], longhand |-> table[i][2],
                  shorthand_clean |-> remove_whitespace(table[i][1]),
                  longhand_clean |-> remove_whitespace(table[i][2])]]]

get_dictionary_description(shorthand) ==
    LET shorthand_clean == remove_whitespace(shorthand)
        match == SelectSeq(dictionary.rows,
                           LAMBDA row : row.shorthand_clean = shorthand_clean)
    IN  IF ~dictionary.loaded THEN shorthand
        ELSE IF match # <<>> THEN match[1].longhand
        ELSE shorthand

\* a row of the match list
Match(motec_var, carsim_var, confidence, match_type, desc, notes) ==
    [Motec_Variable |-> motec_var, CarSim_Variable |-> carsim_var,
     Confidence |-> confidence, Match_Type |-> match_type,
     Dictionary_Description |-> desc, Notes |-> notes]

\* for x in xs: for y in ys: the rows body(x, y) appends, in loop order
Loop2(xs, ys, body(_, _)) ==
    Concat([i \in 1..Len(xs) |-> Concat([j \in 1..Len(ys) |-> body(xs[i], ys[j])])])

-----------------------------------------------------------------------------
(* The matching passes *)

\* the exact pass comparing the names as written
match_exact_names_raw ==
    Loop2(motec_headers, carsim_headers,
          LAMBDA motec_var, carsim_var :
              IF motec_var = carsim_var
              THEN <<Match(motec_var, carsim_var, 100, "Exact",
                           <<"I","d","e","n","t","i","c","a","l"," ","v","a","r","i","a","b","l","e"," ","n","a","m","e","s">> (* Identical variable names *),
                           <<"N","o"," ","d","i","c","t","i","o","n","a","r","y"," ","n","e","e","d","e","d"," ","-"," ","e","x","a","c","t"," ","s","t","r","i","n","g"," ","m","a","t","c","h">> (* No dictionary needed - exact string match *))>>
              ELSE <<>>)

match_exact_names ==
    Loop2(motec_headers, carsim_headers,
          LAMBDA motec_var, carsim_var :
              IF normalize_text(motec_var) = normalize_text(carsim_var)
              THEN <<Match(motec_var, carsim_var, 100, "Exact",
                           <<"I","d","e","n","t","i","c","a","l"," ","v","a","r","i","a","b","l","e"," ","n","a","m","e","s">> (* Identical variable names *),
                           <<"N","o"," ","d","i","c","t","i","o","n","a","r","y"," ","n","e","e","d","e","d"," ","-"," ","e","x","a","c","t"," ","s","t","r","i","n","g"," ","m","a","t","c","h">> (* No dictionary needed - exact string match *))>>
              ELSE <<>>)

\* Python's `x in list`
InList(x, list) == x \in Range(list)

\* for x in xs: the rows body(x) appends, in loop order
Loop1(xs, body(_)) == Concat([i \in 1..Len(xs) |-> body(xs[i])])

\* any(p in text for p in patterns)
AnyIn(patterns, text) == \E i \in DOMAIN patterns : Contains(patterns[i], text)

\* zip(xs, ys)
Zip(xs, ys) ==
    [i \in 1..(IF Len(xs) <= Len(ys) THEN Len(xs) ELSE Len(ys)) |-> <<xs[i], ys[i]>>]

accel_patterns ==
    << [motec |-> <<<<"C","1","8","5"," ","G"," ","F","o","r","c","e"," ","L","a","t">> (* C185 G Force Lat *), <<"F"," ","I","M","U"," ","V","e","h","i","c","l","e"," ","A","c","c","e","l"," ","L","a","t","e","r","a","l">> (* F IMU Vehicle Accel Lateral *),
                    <<"R"," ","I","M","U"," ","V","e","h","i","c","l","e"," ","A","c","c","e","l"," ","L","a","t","e","r","a","l">> (* R IMU Vehicle Accel Lateral *)>>,
        carsim |-> <<<<"A","y","_","S","M">> (* Ay_SM *), <<"A","y","_","R","d">> (* Ay_Rd *)>>,
        axis |-> <<"L","a","t","e","r","a","l"," ","(","Y",")">> (* Lateral (Y) *), confidence_base |-> 100],
       [motec |-> <<<<"C","1","8","5"," ","G"," ","F","o","r","c","e"," ","L","o","n","g">> (* C185 G Force Long *), <<"F"," ","I","M","U"," ","V","e","h","i","c","l","e"," ","A","c","c","e","l"," ","L","o","n","g">> (* F IMU Vehicle Accel Long *),
                    <<"R"," ","I","M","U"," ","V","e","h","i","c","l","e"," ","A","c","c","e","l"," ","L","o","n","g">> (* R IMU Vehicle Accel Long *)>>,
        carsim |-> <<<<"A","x","_","S","M">> (* Ax_SM *), <<"A","x","_","R","d">> (* Ax_Rd *)>>,
        axis |-> <<"L","o","n","g","i","t","u","d","i","n","a","l"," ","(","X",")">> (* Longitudinal (X) *), confidence_base |-> 100],
       [motec |-> <<<<"C","1","8","5"," ","G"," ","F","o","r","c","e"," ","V","e","r","t">> (* C185 G Force Vert *), <<"F"," ","I","M","U"," ","V","e","h","i","c","l","e"," ","A","c","c","e","l"," ","V","e","r","t">> (* F IMU Vehicle Accel Vert *),
                    <<"R"," ","I","M","U"," ","V","e","h","i","c","l","e"," ","A","c","c","e","l"," ","V","e","r","t">> (* R IMU Vehicle Accel Vert *)>>,
        carsim |-> <<<<"A","z","_","S","M">> (* Az_SM *), <<"A","z","_","R","d">> (* Az_Rd *)>>,
        axis |-> <<"V","e","r","t","i","c","a","l"," ","(","Z",")">> (* Vertical (Z) *), confidence_base |-> 100] >>

match_accelerations ==
    Loop2(accel_patterns, motec_headers,
          LAMBDA pattern, motec_var :
              IF AnyIn(pattern.motec, motec_var)
              THEN Loop1(pattern.carsim,
                         LAMBDA carsim_var :
                             IF InList(carsim_var, carsim_headers)
                             THEN <<Match(motec_var, carsim_var,
                                          IF Contains(<<"_","R","d">> (* _Rd *), carsim_var)
                                          THEN pattern.confidence_base - 5
                                          ELSE pattern.confidence_base,
                                          "Acceleration",
                                          get_dictionary_description(carsim_var),
                                          pattern.axis \o <<" ","a","c","c","e","l","e","r","a","t","i","o","n">> (*  acceleration *))>>
                             ELSE <<>>)
              ELSE <<>>)

gyro_patterns ==
    << [motec |-> <<<<"F"," ","I","M","U"," ","G","y","r","o"," ","R","o","l","l"," ","V","e","l","o","c","i","t","y">> (* F IMU Gyro Roll Velocity *), <<"R"," ","I","M","U"," ","G","y","r","o"," ","R","o","l","l"," ","V","e","l","o","c","i","t","y">> (* R IMU Gyro Roll Velocity *)>>,
        carsim |-> <<<<"A","V","x">> (* AVx *), <<"A","V","_","R">> (* AV_R *)>>, axis |-> <<"R","o","l","l"," ","(","X",")">> (* Roll (X) *), body_fixed |-> TRUE],
       [motec |-> <<<<"F"," ","I","M","U"," ","G","y","r","o"," ","P","i","t","c","h"," ","V","e","l","o","c","i","t","y">> (* F IMU Gyro Pitch Velocity *), <<"R"," ","I","M","U"," ","G","y","r","o"," ","P","i","t","c","h"," ","V","e","l","o","c","i","t","y">> (* R IMU Gyro Pitch Velocity *)>>,
        carsim |-> <<<<"A","V","y">> (* AVy *), <<"A","V","_","P">> (* AV_P *)>>, axis |-> <<"P","i","t","c","h"," ","(","Y",")">> (* Pitch (Y) *), body_fixed |-> TRUE],
       [motec |-> <<<<"F"," ","I","M","U"," ","G","y","r","o"," ","Y","a","w"," ","V","e","l","o","c","i","t","y">> (* F IMU Gyro Yaw Velocity *), <<"R"," ","I","M","U"," ","G","y","r","o"," ","Y","a","w"," ","V","e","l","o","c","i","t","y">> (* R IMU Gyro Yaw Velocity *)>>,
        carsim |-> <<<<"A","V","z">> (* AVz *), <<"A","V","_","Y">> (* AV_Y *)>>, axis |-> <<"Y","a","w"," ","(","Z",")">> (* Yaw (Z) *), body_fixed |-> TRUE] >>

match_gyroscopes ==
    Loop2(gyro_patterns, motec_headers,
          LAMBDA pattern, motec_var :
              IF AnyIn(pattern.motec, motec_var)
              THEN Loop1(pattern.carsim,
                         LAMBDA carsim_var :
                             IF InList(carsim_var, carsim_headers)
                             THEN <<Match(motec_var, carsim_var, 100, "Gyroscope",
                                          get_dictionary_description(carsim_var),
                                          pattern.axis \o <<" ","r","a","t","e"," ","(">> (*  rate ( *)
                                            \o (IF Contains(<<"_">> (* _ *), carsim_var)
                                                THEN <<"E","u","l","e","r">> (* Euler *) ELSE <<"b","o","d","y","-","f","i","x","e","d">> (* body-fixed *))
                                            \o <<")">> (* ) *))>>
                             ELSE <<>>)
              ELSE <<>>)

\* match_wheel_speeds building the CarSim name from the Motec position
match_wheel_speeds_motec_notation ==
    Loop1(motec_headers,
          LAMBDA motec_var :
              LET motec_pos == extract_position(motec_var)
                  carsim_pos == map_position_motec_to_carsim(motec_pos)
                  carsim_var == <<"A","V","y","_">> (* AVy_ *) \o motec_pos
              IN  IF Contains(<<"W","h","e","e","l"," ","S","p","e","e","d">> (* Wheel Speed *), motec_var) /\ motec_pos # <<>>
                     /\ InList(carsim_var, carsim_headers)
                  THEN <<Match(motec_var, carsim_var, 100, "Wheel",
                               get_dictionary_description(carsim_var),
                               <<"W","h","e","e","l"," ","s","p","i","n"," ","(","r","p","m",")"," ","-"," ">> (* Wheel spin (rpm) -  *) \o motec_pos \o <<"=">> (* = *) \o carsim_pos)>>
                  ELSE <<>>)

match_wheel_speeds ==
    Loop1(motec_headers,
          LAMBDA motec_var :
              LET motec_pos == extract_position(motec_var)
                  carsim_pos == map_position_motec_to_carsim(motec_pos)
                  carsim_var == <<"A","V","y","_">> (* AVy_ *) \o carsim_pos
              IN  IF Contains(<<"W","h","e","e","l"," ","S","p","e","e","d">> (* Wheel Speed *), motec_var) /\ motec_pos # <<>>
                     /\ InList(carsim_var, carsim_headers)
                  THEN <<Match(motec_var, carsim_var, 100, "Wheel",
                               get_dictionary_description(carsim_var),
                               <<"W","h","e","e","l"," ","s","p","i","n"," ","(","r","p","m",")"," ","-"," ">> (* Wheel spin (rpm) -  *) \o motec_pos \o <<"=">> (* = *) \o carsim_pos)>>
                  ELSE <<>>)

\* match_suspension trying CmpT only when Jnc is not a CarSim header
match_suspension_first_found ==
    Loop1(motec_headers,
          LAMBDA motec_var :
              LET motec_pos == extract_position(motec_var)
                  carsim_pos == map_position_motec_to_carsim(motec_pos)
                  carsim_var_jnc == <<"J","n","c","_">> (* Jnc_ *) \o carsim_pos
                  carsim_var_cmp == <<"C","m","p","T","_">> (* CmpT_ *) \o carsim_pos
              IN  IF Contains(<<"S","u","s","p"," ","P","o","s">> (* Susp Pos *), motec_var) /\ motec_pos # <<>>
                  THEN IF InList(carsim_var_jnc, carsim_headers)
                       THEN <<Match(motec_var, carsim_var_jnc, 100, "Suspension",
                                    get_dictionary_description(carsim_var_jnc),
                                    <<"J","o","u","n","c","e"," ","(","c","o","m","p","r","e","s","s","i","o","n",")"," ","-"," ">> (* Jounce (compression) -  *) \o motec_pos \o <<"=">> (* = *)
                                      \o carsim_pos)>>
                       ELSE IF InList(carsim_var_cmp, carsim_headers)
                       THEN <<Match(motec_var, carsim_var_cmp, 95, "Suspension",
                                    get_dictionary_description(carsim_var_cmp),
                                    <<"T","o","t","a","l"," ","c","o","m","p","r","e","s","s","i","o","n"," ","-"," ">> (* Total compression -  *) \o motec_pos \o <<"=">> (* = *)
                                      \o carsim_pos)>>
                       ELSE <<>>
                  ELSE <<>>)

match_suspension ==
    Loop1(motec_headers,
          LAMBDA motec_var :
              LET motec_pos == extract_position(motec_var)
                  carsim_pos == map_position_motec_to_carsim(motec_pos)
                  carsim_var_jnc == <<"J","n","c","_">> (* Jnc_ *) \o carsim_pos
                  carsim_var_cmp == <<"C","m","p","T","_">> (* CmpT_ *) \o carsim_pos
              IN  IF Contains(<<"S","u","s","p"," ","P","o","s">> (* Susp Pos *), motec_var) /\ motec_pos # <<>>
                  THEN (IF InList(carsim_var_jnc, carsim_headers)
                        THEN <<Match(motec_var, carsim_var_jnc, 100, "Suspension",
                                     get_dictionary_description(carsim_var_jnc),
                                     <<"J","o","u","n","c","e"," ","(","c","o","m","p","r","e","s","s","i","o","n",")"," ","-"," ">> (* Jounce (compression) -  *) \o motec_pos \o <<"=">> (* = *)
                                       \o carsim_pos)>>
                        ELSE <<>>)
                       \o
                       (IF InList(carsim_var_cmp, carsim_headers)
                        THEN <<Match(motec_var, carsim_var_cmp, 95, "Suspension",
                                     get_dictionary_description(carsim_var_cmp),
                                     <<"T","o","t","a","l"," ","c","o","m","p","r","e","s","s","i","o","n"," ","-"," ">> (* Total compression -  *) \o motec_pos \o <<"=">> (* = *)
                                       \o carsim_pos)>>
                        ELSE <<>>)
                  ELSE <<>>)

\* the exception a dict subscript raises for a missing key, as it passes through the
\* row being built
KeyError == Match(<<>>, <<>>, 0, "KeyError", <<>>, <<>>)

\* a pass has raised instead of returning its rows
Raises(result) == \E i \in DOMAIN result : result[i].Match_Type = "KeyError"

\* run_pc after an exception has left run_matching
Propagated == -1

\* brake_mappings with the positions of the two axles exchanged
brake_mappings_exchanged ==
    << [motec |-> <<"B","r","a","k","e"," ","P","r","e","s","s","u","r","e"," ","F","r","o","n","t">> (* Brake Pressure Front *), positions |-> <<<<"L","2">> (* L2 *), <<"R","2">> (* R2 *)>>,
        axle |-> <<"F","r","o","n","t">> (* Front *)],
       [motec |-> <<"B","r","a","k","e"," ","P","r","e","s","s","u","r","e"," ","R","e","a","r">> (* Brake Pressure Rear *), positions |-> <<<<"L","1">> (* L1 *), <<"R","1">> (* R1 *)>>,
        axle |-> <<"R","e","a","r">> (* Rear *)] >>

brake_mappings ==
    << [motec |-> <<"B","r","a","k","e"," ","P","r","e","s","s","u","r","e"," ","F","r","o","n","t">> (* Brake Pressure Front *), positions |-> <<<<"L","1">> (* L1 *), <<"R","1">> (* R1 *)>>,
        axle |-> <<"F","r","o","n","t">> (* Front *)],
       [motec |-> <<"B","r","a","k","e"," ","P","r","e","s","s","u","r","e"," ","R","e","a","r">> (* Brake Pressure Rear *), positions |-> <<<<"L","2">> (* L2 *), <<"R","2">> (* R2 *)>>,
        axle |-> <<"R","e","a","r">> (* Rear *)] >>

match_brake_pressure ==
    Loop2(brake_mappings, motec_headers,
          LAMBDA mapping, motec_var :
              IF Contains(mapping.motec, motec_var)
              THEN Loop1(mapping.positions,
                         LAMBDA pos :
                             LET carsim_var == <<"P","b","k","C","h","_">> (* PbkCh_ *) \o pos
                             IN  IF ~InList(carsim_var, carsim_headers) THEN <<>>
                                 ELSE IF pos \notin DOMAIN reverse_position_map
                                 THEN <<KeyError>>
                                 ELSE <<Match(motec_var, carsim_var, 95, "Brake",
                                              get_dictionary_description(carsim_var),
                                              mapping.axle \o <<" ","b","r","a","k","e"," ","p","r","e","s","s","u","r","e"," ","-"," ">> (*  brake pressure -  *)
                                                \o reverse_position_map[pos] \o <<"=">> (* = *)
                                                \o pos)>>)
              ELSE <<>>)

match_rotor_temperatures ==
    Loop1(motec_headers,
          LAMBDA motec_var :
              LET motec_pos == extract_position(motec_var)
                  carsim_pos == map_position_motec_to_carsim(motec_pos)
                  carsim_var == <<"T","_","R","t","r","_">> (* T_Rtr_ *) \o carsim_pos
                  is_max == Contains(<<"M","a","x">> (* Max *), motec_var)
              IN  IF Contains(<<"R","o","t","o","r"," ","T","e","m","p">> (* Rotor Temp *), motec_var) /\ motec_pos # <<>>
                     /\ InList(carsim_var, carsim_headers)
                  THEN <<Match(motec_var, carsim_var, IF is_max THEN 100 ELSE 95,
                               "Temperature",
                               get_dictionary_description(carsim_var),
                               <<"R","o","t","o","r"," ","t","e","m","p","e","r","a","t","u","r","e"," ">> (* Rotor temperature  *) \o motec_pos \o <<"=">> (* = *) \o carsim_pos
                                 \o <<" ","-"," ">> (*  -  *)
                                 \o (IF is_max THEN <<"M","a","x"," ","o","f"," ","s","e","n","s","o","r","s">> (* Max of sensors *)
                                     ELSE <<"M","u","l","t","i","p","l","e"," ","s","e","n","s","o","r","s"," ","t","o"," ","s","i","n","g","l","e"," ","o","u","t","p","u","t">> (* Multiple sensors to single output *)))>>
                  ELSE <<>>)

\* the candidate loop leaving at the first candidate that is not a CarSim header
RECURSIVE RowsUntilAbsent(_, _, _, _)
RowsUntilAbsent(pairs, motec_var, match_type, notes) ==
    IF pairs = <<>> \/ ~InList(Head(pairs)[1], carsim_headers) THEN <<>>
    ELSE <<Match(motec_var, Head(pairs)[1], Head(pairs)[2], match_type,
                 get_dictionary_description(Head(pairs)[1]), notes)>>
         \o RowsUntilAbsent(Tail(pairs), motec_var, match_type, notes)

CandidateRows_until_absent(mapping, motec_var, match_type, notes) ==
    RowsUntilAbsent(Zip(mapping.carsim, mapping.confidence), motec_var, match_type, notes)

\* a candidate list with its confidences: the rows of one mapping for one source
CandidateRows(mapping, motec_var, match_type, notes) ==
    Loop1(Zip(mapping.carsim, mapping.confidence),
          LAMBDA pair :
              IF InList(pair[1], carsim_headers)
              THEN <<Match(motec_var, pair[1], pair[2], match_type,
                           get_dictionary_description(pair[1]), notes)>>
              ELSE <<>>)

\* a bare string or number of the source table is the one-element list that
\* lines 475-476 (and the single-candidate loops of fuel and distance) make of it
engine_mappings ==
    << [motec |-> <<"E","n","g","i","n","e"," ","S","p","e","e","d">> (* Engine Speed *), carsim |-> <<<<"A","V","_","E","n","g">> (* AV_Eng *)>>, confidence |-> <<100>>],
       [motec |-> <<"T","h","r","o","t","t","l","e"," ","P","o","s","i","t","i","o","n">> (* Throttle Position *),
        carsim |-> <<<<"T","h","r","o","t","t","l","e">> (* Throttle *), <<"T","h","r","_","E","n","g">> (* Thr_Eng *), <<"T","h","r","_","I","n","t","l">> (* Thr_Intl *)>>,
        confidence |-> <<100, 98, 95>>],
       [motec |-> <<"G","e","a","r">> (* Gear *), carsim |-> <<<<"G","e","a","r","S","t","a","t">> (* GearStat *), <<"G","e","a","r","_","C","L">> (* Gear_CL *), <<"G","e","a","r","_","O","L">> (* Gear_OL *)>>,
        confidence |-> <<100, 90, 85>>] >>

\* the engine pass leaving out the names an earlier pass has matched
match_engine_powertrain_unclaimed_only ==
    SelectSeq(Loop2(engine_mappings, motec_headers,
                    LAMBDA mapping, motec_var :
                        IF Contains(mapping.motec, motec_var)
                        THEN CandidateRows(mapping, motec_var, "Engine/Powertrain",
                                           mapping.motec \o <<" ","m","e","a","s","u","r","e","m","e","n","t">> (*  measurement *))
                        ELSE <<>>),
              LAMBDA row : \A i \in DOMAIN all_matches :
                               /\ all_matches[i].Motec_Variable # row.Motec_Variable
                               /\ all_matches[i].CarSim_Variable # row.CarSim_Variable)

match_engine_powertrain ==
    Loop2(engine_mappings, motec_headers,
          LAMBDA mapping, motec_var :
              IF Contains(mapping.motec, motec_var)
              THEN CandidateRows(mapping, motec_var, "Engine/Powertrain",
                                 mapping.motec \o <<" ","m","e","a","s","u","r","e","m","e","n","t">> (*  measurement *))
              ELSE <<>>)

gps_mappings ==
    << [motec |-> <<"G","P","S"," ","A","l","t","i","t","u","d","e">> (* GPS Altitude *), carsim |-> <<<<"G","P","S","_","A","l","t","i","t","u","d","e">> (* GPS_Altitude *)>>,
        confidence |-> <<100>>],
       [motec |-> <<"G","P","S"," ","L","a","t","i","t","u","d","e">> (* GPS Latitude *), carsim |-> <<<<"G","P","S","_","L","a","t">> (* GPS_Lat *), <<"G","P","S","_","L","a","t","A">> (* GPS_LatA *)>>,
        confidence |-> <<100, 95>>],
       [motec |-> <<"G","P","S"," ","L","o","n","g","i","t","u","d","e">> (* GPS Longitude *), carsim |-> <<<<"G","P","S","_","L","o","n","g">> (* GPS_Long *), <<"G","P","S","l","o","n","g","A">> (* GPSlongA *)>>,
        confidence |-> <<100, 100>>],
       [motec |-> <<"G","P","S"," ","S","p","e","e","d">> (* GPS Speed *), carsim |-> <<<<"V","x">> (* Vx *)>>, confidence |-> <<85>>] >>

match_gps ==
    Loop2(gps_mappings, motec_headers,
          LAMBDA mapping, motec_var :
              IF Contains(mapping.motec, motec_var)
              THEN CandidateRows(mapping, motec_var, "GPS", <<"G","P","S"," ">> (* GPS  *) \o mapping.motec)
              ELSE <<>>)

velocity_mappings ==
    << [motec |-> <<"G","r","o","u","n","d"," ","S","p","e","e","d">> (* Ground Speed *), carsim |-> <<<<"V","x">> (* Vx *), <<"V","x","_","S","M">> (* Vx_SM *), <<"V","x","_","F","w","d">> (* Vx_Fwd *)>>,
        confidence |-> <<100, 100, 95>>],
       [motec |-> <<"D","r","i","v","e"," ","S","p","e","e","d">> (* Drive Speed *), carsim |-> <<<<"V","x">> (* Vx *)>>, confidence |-> <<90>>] >>

match_velocity ==
    Loop2(velocity_mappings, motec_headers,
          LAMBDA mapping, motec_var :
              IF Contains(mapping.motec, motec_var)
              THEN CandidateRows(mapping, motec_var, "Velocity",
                                 <<"L","o","n","g","i","t","u","d","i","n","a","l"," ","v","e","l","o","c","i","t","y">> (* Longitudinal velocity *))
              ELSE <<>>)

fuel_mappings ==
    << [motec |-> <<"F","u","e","l"," ","F","l","o","w">> (* Fuel Flow *), carsim |-> <<<<"Q","f","u","e","l">> (* Qfuel *)>>, confidence |-> <<100>>],
       [motec |-> <<"F","u","e","l"," ","U","s","e","d"," ","M","1">> (* Fuel Used M1 *), carsim |-> <<<<"M","f","u","e","l">> (* Mfuel *)>>, confidence |-> <<100>>] >>

match_fuel ==
    Loop2(fuel_mappings, motec_headers,
          LAMBDA mapping, motec_var :
              IF Contains(mapping.motec, motec_var)
              THEN CandidateRows(mapping, motec_var, "Fuel", <<"F","u","e","l"," ","m","e","a","s","u","r","e","m","e","n","t">> (* Fuel measurement *))
              ELSE <<>>)

distance_mappings ==
    << [motec |-> <<"O","d","o","m","e","t","e","r">> (* Odometer *), carsim |-> <<<<"S","t","a","t","i","o","n">> (* Station *)>>, confidence |-> <<90>>],
       [motec |-> <<"T","r","i","p"," ","D","i","s","t","a","n","c","e">> (* Trip Distance *), carsim |-> <<<<"S","t","a","t","i","o","n">> (* Station *)>>, confidence |-> <<85>>],
       [motec |-> <<"D","i","s","t","a","n","c","e">> (* Distance *), carsim |-> <<<<"S","t","a","t","i","o","n">> (* Station *)>>, confidence |-> <<90>>],
       [motec |-> <<"L","a","p"," ","D","i","s","t","a","n","c","e">> (* Lap Distance *), carsim |-> <<<<"S","t","a","_","R","o","a","d">> (* Sta_Road *)>>, confidence |-> <<80>>] >>

match_distance ==
    Loop2(distance_mappings, motec_headers,
          LAMBDA mapping, motec_var :
              IF mapping.motec = motec_var \/ Contains(mapping.motec, motec_var)
              THEN CandidateRows(mapping, motec_var, "Distance",
                                 <<"D","i","s","t","a","n","c","e","/","p","a","t","h"," ","m","e","a","s","u","r","e","m","e","n","t">> (* Distance/path measurement *))
              ELSE <<>>)

steering_vars ==
    << <<<<"S","t","e","e","r","_","S","W">> (* Steer_SW *), 95, <<"S","t","e","e","r","i","n","g"," ","w","h","e","e","l"," ","a","n","g","l","e">> (* Steering wheel angle *)>>,
       <<<<"S","t","e","e","r","_","L","1">> (* Steer_L1 *), 90, <<"F","L"," ","w","h","e","e","l"," ","s","t","e","e","r"," ","a","n","g","l","e">> (* FL wheel steer angle *)>>,
       <<<<"S","t","e","e","r","_","R","1">> (* Steer_R1 *), 90, <<"F","R"," ","w","h","e","e","l"," ","s","t","e","e","r"," ","a","n","g","l","e">> (* FR wheel steer angle *)>> >>

match_steering ==
    Loop1(motec_headers,
          LAMBDA motec_var :
              IF Contains(<<"S","t","e","e","r","e","d"," ","A","n","g","l","e">> (* Steered Angle *), motec_var)
                 \/ Contains(<<"S","t","e","e","r"," ","A","n","g","l","e">> (* Steer Angle *), motec_var)
              THEN Loop1(steering_vars,
                         LAMBDA v :
                             IF InList(v[1], carsim_headers)
                             THEN <<Match(motec_var, v[1], v[2], "Steering",
                                          get_dictionary_description(v[1]), v[3])>>
                             ELSE <<>>)
              ELSE <<>>)

-----------------------------------------------------------------------------
(* run_matching, one call after the other *)

\* run_matching with the wheel-speed and the suspension call exchanged
run_matching_calls_exchanged ==
    << "match_exact_names", "match_accelerations", "match_gyroscopes",
       "match_suspension", "match_wheel_speeds", "match_brake_pressure",
       "match_rotor_temperatures", "match_engine_powertrain", "match_gps",
       "match_velocity", "match_fuel", "match_distance", "match_steering" >>

\* the calls of run_matching in the order of its lines
run_matching_calls ==
    << "match_exact_names", "match_accelerations", "match_gyroscopes",
       "match_wheel_speeds", "match_suspension", "match_brake_pressure",
       "match_rotor_temperatures", "match_engine_powertrain", "match_gps",
       "match_velocity", "match_fuel", "match_distance", "match_steering" >>

CallIndex(name) == CHOOSE i \in DOMAIN run_matching_calls : run_matching_calls[i] = name

\* all_matches.extend(<result of the call>), or the call's exception leaving
\* run_matching
Extend(name, result) ==
    /\ run_pc = CallIndex(name)
    /\ \E returned_rows \in {result} :
           IF Raises(returned_rows)
           THEN run_pc' = Propagated /\ UNCHANGED all_matches
           ELSE all_matches' = all_matches \o returned_rows /\ run_pc' = run_pc + 1
    /\ UNCHANGED <<dictionary, motec_headers, carsim_headers, loaded, matches,
                   matched_file>>
    /\ UNCHANGED export_vars
    /\ UNCHANGED text_vars

\* run_matching is entered: all_matches = []
run_matching_begin ==
    /\ run_pc = 0
    /\ "carsim" \in loaded
    /\ all_matches' = <<>>
    /\ run_pc' = 1
    /\ UNCHANGED <<dictionary, motec_headers, carsim_headers, loaded, matches,
                   matched_file>>
    /\ UNCHANGED export_vars
    /\ UNCHANGED text_vars

call_match_exact_names == Extend("match_exact_names", match_exact_names)

call_match_accelerations == Extend("match_accelerations", match_accelerations)

call_match_gyroscopes == Extend("match_gyroscopes", match_gyroscopes)

call_match_wheel_speeds == Extend("match_wheel_speeds", match_wheel_speeds)

call_match_suspension == Extend("match_suspension", match_suspension)

call_match_brake_pressure == Extend("match_brake_pressure", match_brake_pressure)

call_match_rotor_temperatures ==
    Extend("match_rotor_temperatures", match_rotor_temperatures)

call_match_engine_powertrain ==
    Extend("match_engine_powertrain", match_engine_powertrain)

call_match_gps == Extend("match_gps", match_gps)

call_match_velocity == Extend("match_velocity", match_velocity)

call_match_fuel == Extend("match_fuel", match_fuel)

call_match_distance == Extend("match_distance", match_distance)

call_match_steering == Extend("match_steering", match_steering)

\* self.matches = all_matches; return all_matches
run_matching_return ==
    /\ run_pc = Len(run_matching_calls) + 1
    /\ matches' = all_matches
    /\ run_pc' = run_pc + 1
    /\ UNCHANGED <<dictionary, motec_headers, carsim_headers, loaded, all_matches,
                   matched_file>>
    /\ UNCHANGED export_vars
    /\ UNCHANGED text_vars

run_matching_done == run_pc = Len(run_matching_calls) + 2

-----------------------------------------------------------------------------
(* The match table on disk *)

DigitText(d) == <<Digits[d + 1]>>

\* a decimal numeral's value
RECURSIVE NumeralValue(_)
NumeralValue(text) ==
    IF text = <<>> THEN 0
    ELSE 10 * NumeralValue(SubSeq(text, 1, Len(text) - 1))
         + ((CHOOSE i \in DOMAIN Digits : Digits[i] = text[Len(text)]) - 1)

\* to_csv writes a float by its shortest repr: 1.0, 0.95, 0.9
FormatConfidence(confidence) ==
    LET whole == confidence \div 100
        tenths == (confidence % 100) \div 10
        hundredths == confidence % 10
    IN  DigitText(whole) \o <<".">> (* . *) \o DigitText(tenths)
        \o (IF hundredths = 0 THEN <<>> ELSE DigitText(hundredths))

\* read_csv parses the field back to a float
ParseConfidence(text) ==
    LET dot == CHOOSE i \in DOMAIN text : text[i] = "."
        whole == SubSeq(text, 1, dot - 1)
        fraction == SubSeq(text, dot + 1, Len(text))
    IN  100 * NumeralValue(whole)
        + (IF Len(fraction) = 1 THEN 10 * NumeralValue(fraction)
           ELSE NumeralValue(SubSeq(fraction, 1, 2)))

to_csv(df) == [i \in 1..Len(df) |-> [df[i] EXCEPT !.Confidence = FormatConfidence(@)]]

read_csv(rows) == [i \in 1..Len(rows) |-> [rows[i] EXCEPT !.Confidence = ParseConfidence(@)]]

NoFile == [exists |-> FALSE, rows |-> <<>>]

RemoveAt(seq, i) == SubSeq(seq, 1, i - 1) \o SubSeq(seq, i + 1, Len(seq))

\* sort_values with ascending=True
RECURSIVE sort_values_ascending(_)
sort_values_ascending(df) ==
    IF df = <<>> THEN {<<>>}
    ELSE LET first == {i \in DOMAIN df :
                          \A j \in DOMAIN df : df[i].Confidence <= df[j].Confidence}
         IN  UNION {{<<df[i]>> \o rest : rest \in sort_values_ascending(RemoveAt(df, i))} :
                    i \in first}

\* DataFrame.sort_values('Confidence', ascending=False) with the default kind,
\* quicksort, which is not stable: every order of the rows with the confidences
\* descending is a possible result
RECURSIVE sort_values(_)
sort_values(df) ==
    IF df = <<>> THEN {<<>>}
    ELSE LET first == {i \in DOMAIN df :
                          \A j \in DOMAIN df : df[j].Confidence <= df[i].Confidence}
         IN  UNION {{<<df[i]>> \o rest : rest \in sort_values(RemoveAt(df, i))} :
                    i \in first}

save_results ==
    /\ run_matching_done
    /\ ~matched_file.exists
    /\ IF matches = <<>>
       THEN UNCHANGED matched_file
       ELSE \E df \in sort_values(matches) :
                matched_file' = [exists |-> TRUE, rows |-> to_csv(df)]
    /\ UNCHANGED matcher_vars
    /\ UNCHANGED export_vars
    /\ UNCHANGED text_vars

-----------------------------------------------------------------------------
(* export_high_confidence_matches: filter, sort, one row per CarSim variable *)

\* remove_duplicates without seen_carsim.add(carsim_var)
RECURSIVE remove_duplicates_never_seen(_, _, _, _)
remove_duplicates_never_seen(rows, seen_carsim, unique, skipped) ==
    IF rows = <<>> THEN [unique_matches |-> unique, skipped_matches |-> skipped]
    ELSE LET row == Head(rows)
             carsim_var == row.CarSim_Variable
         IN  IF carsim_var \in seen_carsim
             THEN remove_duplicates_never_seen(Tail(rows), seen_carsim, unique,
                      Append(skipped,
                             [Motec_Variable |-> row.Motec_Variable,
                              CarSim_Variable |-> carsim_var,
                              Confidence |-> row.Confidence,
                              Reason |-> "Duplicate CarSim output"]))
             ELSE remove_duplicates_never_seen(Tail(rows), seen_carsim,
                                               Append(unique, row), skipped)

\* the loop over high_conf_matches.iterrows()
RECURSIVE remove_duplicates(_, _, _, _)
remove_duplicates(rows, seen_carsim, unique, skipped) ==
    IF rows = <<>> THEN [unique_matches |-> unique, skipped_matches |-> skipped]
    ELSE LET row == Head(rows)
             carsim_var == row.CarSim_Variable
         IN  IF carsim_var \in seen_carsim
             THEN remove_duplicates(Tail(rows), seen_carsim, unique,
                      Append(skipped,
                             [Motec_Variable |-> row.Motec_Variable,
                              CarSim_Variable |-> carsim_var,
                              Confidence |-> row.Confidence,
                              Reason |-> "Duplicate CarSim output"]))
             ELSE remove_duplicates(Tail(rows), seen_carsim \cup {carsim_var},
                                    Append(unique, row), skipped)

\* no filter: every row of the table is taken as a high-confidence match
filter_by_confidence_keep_all(matches_df, threshold) == matches_df

\* the filter with > in place of >=
filter_by_confidence_strict(matches_df, threshold) ==
    SelectSeq(matches_df, LAMBDA row : row.Confidence > threshold)

\* the filter with <= in place of >=
filter_by_confidence_reversed(matches_df, threshold) ==
    SelectSeq(matches_df, LAMBDA row : row.Confidence <= threshold)

\* matches_df[matches_df['Confidence'] >= confidence_threshold]
filter_by_confidence(matches_df, threshold) ==
    SelectSeq(matches_df, LAMBDA row : row.Confidence >= threshold)

NotCalled == [status |-> "not called", data_loaded |-> FALSE, output_written |-> FALSE]

export_high_confidence_matches(threshold) ==
    /\ matched_file.exists
    /\ confidence_threshold' = threshold
    /\ previous_export' = [called |-> export_state.status # "not called",
                           threshold |-> confidence_threshold,
                           kept |-> Len(unique_matches)]
    /\ LET matches_df == read_csv(matched_file.rows)
           high_conf_matches == filter_by_confidence(matches_df, threshold)
       IN  \/ /\ high_conf_matches = <<>>
              /\ unique_matches' = <<>>
              /\ skipped_matches' = <<>>
              /\ export_state' = [status |-> "No matches meet the confidence threshold!",
                                  data_loaded |-> FALSE, output_written |-> FALSE]
           \/ /\ high_conf_matches # <<>>
              /\ \E sorted \in sort_values(high_conf_matches) :
                    LET result == remove_duplicates(sorted, {}, <<>>, <<>>)
                    IN  /\ unique_matches' = result.unique_matches
                        /\ skipped_matches' = result.skipped_matches
              /\ export_state' = [status |-> "EXPORT COMPLETE",
                                  data_loaded |-> TRUE, output_written |-> TRUE]
    /\ UNCHANGED matcher_vars
    /\ UNCHANGED matched_file
    /\ UNCHANGED text_vars

-----------------------------------------------------------------------------
(* Inputs *)

MaxMotec == 2

MaxCarsim == 2

MaxRows == 3

\* Three logged sessions, each with the logger's channel names (motec) and the
\* simulator's sensor names (carsim) in the order of their header rows: a chassis
\* session, a powertrain session and a session with per-axle and averaged channels
Schemas ==
    << [motec |-> << <<"C","1","8","5"," ","G"," ","F","o","r","c","e"," ","L","a","t"," ","(","g",")">> (* C185 G Force Lat (g) *), <<"F"," ","I","M","U"," ","G","y","r","o"," ","R","o","l","l"," ","V","e","l","o","c","i","t","y">> (* F IMU Gyro Roll Velocity *),
                     <<"F","L"," ","W","h","e","e","l"," ","S","p","e","e","d">> (* FL Wheel Speed *), <<"F","L"," ","S","u","s","p"," ","P","o","s">> (* FL Susp Pos *), <<"S","u","s","p"," ","P","o","s"," ","L","1">> (* Susp Pos L1 *),
                     <<"B","r","a","k","e"," ","P","r","e","s","s","u","r","e"," ","F","r","o","n","t">> (* Brake Pressure Front *), <<"F","L"," ","R","o","t","o","r"," ","T","e","m","p"," ","M","a","x">> (* FL Rotor Temp Max *),
                     <<"T","h","r","o","t","t","l","e"," ","P","o","s","i","t","i","o","n">> (* Throttle Position *) >>,
        carsim |-> << <<"A","y","_","S","M">> (* Ay_SM *), <<"A","y","_","R","d">> (* Ay_Rd *), <<"A","V","x">> (* AVx *), <<"A","V","y","_","L","1">> (* AVy_L1 *), <<"J","n","c","_","L","1">> (* Jnc_L1 *), <<"C","m","p","T","_","L","1">> (* CmpT_L1 *),
                      <<"P","b","k","C","h","_","L","1">> (* PbkCh_L1 *), <<"T","_","R","t","r","_","L","1">> (* T_Rtr_L1 *), <<"T","h","r","o","t","t","l","e">> (* Throttle *) >>],
       [motec |-> << <<"S","t","e","e","r"," ","S","W">> (* Steer SW *), <<"G","e","a","r","S","t","a","t">> (* GearStat *), <<"T","h","r","o","t","t","l","e"," ","P","o","s","i","t","i","o","n">> (* Throttle Position *), <<"G","P","S"," ","S","p","e","e","d">> (* GPS Speed *),
                     <<"G","r","o","u","n","d"," ","S","p","e","e","d">> (* Ground Speed *), <<"F","u","e","l"," ","F","l","o","w">> (* Fuel Flow *), <<"T","r","i","p"," ","D","i","s","t","a","n","c","e">> (* Trip Distance *),
                     <<"S","t","e","e","r","e","d"," ","A","n","g","l","e">> (* Steered Angle *) >>,
        carsim |-> << <<"S","t","e","e","r","_","S","W">> (* Steer_SW *), <<"G","e","a","r","S","t","a","t">> (* GearStat *), <<"T","h","r","o","t","t","l","e">> (* Throttle *), <<"T","h","r","_","E","n","g">> (* Thr_Eng *), <<"V","x">> (* Vx *),
                      <<"Q","f","u","e","l">> (* Qfuel *), <<"S","t","a","t","i","o","n">> (* Station *), <<"S","t","a","_","R","o","a","d">> (* Sta_Road *) >>],
       [motec |-> << <<"A","v","g"," ","W","h","e","e","l"," ","S","p","e","e","d">> (* Avg Wheel Speed *), <<"B","r","a","k","e"," ","P","r","e","s","s","u","r","e"," ","R","e","a","r">> (* Brake Pressure Rear *), <<"G","r","o","u","n","d"," ","S","p","e","e","d">> (* Ground Speed *) >>,
        carsim |-> << <<"P","b","k","C","h","_","L","1">> (* PbkCh_L1 *), <<"P","b","k","C","h","_","L","2">> (* PbkCh_L2 *), <<"V","x">> (* Vx *), <<"V","x","_","S","M">> (* Vx_SM *) >>] >>

\* the rows of schema at the positions in keep, in schema order
Pick(schema, keep) ==
    LET F[i \in 0..Len(schema)] ==
            IF i = 0 THEN <<>>
            ELSE IF i \in keep THEN Append(F[i - 1], schema[i]) ELSE F[i - 1]
    IN  F[Len(schema)]

HeaderLists(schema, max) ==
    {Pick(schema, keep) : keep \in {k \in SUBSET DOMAIN schema : Cardinality(k) <= max}}

\* the header rows a session's logger file can have
MotecHeaderLists == [g \in DOMAIN Schemas |-> HeaderLists(Schemas[g].motec, MaxMotec)]

\* the header rows a session's simulator file can have
CarsimHeaderLists == [g \in DOMAIN Schemas |-> HeaderLists(Schemas[g].carsim, MaxCarsim)]

\* a reference table of (shorthand, longhand) rows
DictionaryTable ==
    << <<<<"V","x"," ">> (* Vx  *), <<"L","o","n","g","i","t","u","d","i","n","a","l"," ","s","p","e","e","d">> (* Longitudinal speed *)>>, <<<<"J","n","c","_","L","1">> (* Jnc_L1 *), <<"J","o","u","n","c","e"," ","L","1">> (* Jounce L1 *)>>,
       <<<<"G","e","a","r","S","t","a","t">> (* GearStat *), <<"G","e","a","r"," ","s","t","a","t","u","s">> (* Gear status *)>> >>

Thresholds == {90, 95, 100}

\* rows of a match table handed to the exporter
ExportRows ==
    {[Motec_Variable |-> m, CarSim_Variable |-> c, Confidence |-> FormatConfidence(conf),
      Match_Type |-> "Engine/Powertrain", Dictionary_Description |-> c,
      Notes |-> <<"G","e","a","r"," ","m","e","a","s","u","r","e","m","e","n","t">> (* Gear measurement *)] :
        m \in {<<"G","e","a","r">> (* Gear *), <<"G","e","a","r"," ","2">> (* Gear 2 *)}, c \in {<<"G","e","a","r","S","t","a","t">> (* GearStat *), <<"G","e","a","r","_","C","L">> (* Gear_CL *)},
        conf \in {90, 100}}

MaxPieces == 2

\* fragments of channel names: a stopword, a separator, a unit, nested parentheses,
\* equivalent words, and position tokens of both notations
TextPieces ==
    << <<"T","h","e">> (* The *), <<" ">> (*   *), <<"(","g",")">> (* (g) *), <<"(","a","(","b",")">> (* (a(b) *), <<"c",")">> (* c) *), <<"G"," ","F","o","r","c","e">> (* G Force *), <<"A","c","c","e","l">> (* Accel *), <<"L","1">> (* L1 *), <<"f","l">> (* fl *) >>

\* the texts made of n fragments
RECURSIVE TextsOfPieces(_)
TextsOfPieces(n) ==
    IF n = 0 THEN {<<>>}
    ELSE {t \o TextPieces[k] : t \in TextsOfPieces(n - 1), k \in DOMAIN TextPieces}

\* the texts a helper is called with
Texts == UNION {TextsOfPieces(n) : n \in 0..MaxPieces}

\* the texts a text is compared with
ComparedTexts == {<<>>, <<"t","h","e">> (* the *), <<"A","c","c","e","l"," ","(","g",")">> (* Accel (g) *), <<"g","-","f","o","r","c","e">> (* g-force *), <<"A">> (* A *), <<"G"," ","F","o","r","c","e"," ","L","a","t">> (* G Force Lat *), <<"c">> (* c *)}

RECURSIVE TablesOfLength(_)
TablesOfLength(n) ==
    IF n = 0 THEN {<<>>}
    ELSE {Append(t, r) : t \in TablesOfLength(n - 1), r \in ExportRows}

ExportTables == UNION {TablesOfLength(n) : n \in 1..MaxRows}

-----------------------------------------------------------------------------
(* The program *)

\* VehicleTelemetryMatcher() and no exporter call yet
Constructed ==
    /\ dictionary = NoDictionary
    /\ motec_headers = <<>>
    /\ carsim_headers = <<>>
    /\ loaded = {}
    /\ run_pc = 0
    /\ all_matches = <<>>
    /\ matches = <<>>
    /\ confidence_threshold = 90
    /\ unique_matches = <<>>
    /\ skipped_matches = <<>>
    /\ export_state = NotCalled
    /\ previous_export = [called |-> FALSE, threshold |-> 90, kept |-> 0]

\* no text helper has been called on its own
NotReturned == [helper |-> "none", value |-> <<>>]

NoTextCall == text1 = <<>> /\ text2 = <<>> /\ returned = NotReturned

Init == Constructed /\ matched_file = NoFile /\ NoTextCall

load_dictionary ==
    /\ loaded = {}
    /\ dictionary' = DictionaryOf(DictionaryTable)
    /\ loaded' = loaded \cup {"dictionary"}
    /\ UNCHANGED <<motec_headers, carsim_headers, run_pc, all_matches, matches,
                   matched_file>>
    /\ UNCHANGED export_vars
    /\ UNCHANGED text_vars

load_motec_data ==
    /\ "motec" \notin loaded
    /\ \E g \in DOMAIN Schemas : \E headers \in MotecHeaderLists[g] :
           motec_headers' = headers
    /\ loaded' = loaded \cup {"motec"}
    /\ UNCHANGED <<dictionary, carsim_headers, run_pc, all_matches, matches,
                   matched_file>>
    /\ UNCHANGED export_vars
    /\ UNCHANGED text_vars

load_carsim_data ==
    /\ "motec" \in loaded
    /\ "carsim" \notin loaded
    /\ \E g \in DOMAIN Schemas :
           /\ motec_headers \in MotecHeaderLists[g]
           /\ \E headers \in CarsimHeaderLists[g] : carsim_headers' = headers
    /\ loaded' = loaded \cup {"carsim"}
    /\ UNCHANGED <<dictionary, motec_headers, run_pc, all_matches, matches,
                   matched_file>>
    /\ UNCHANGED export_vars
    /\ UNCHANGED text_vars

\* the exporter's main(): one call, on the table the matcher's main() saved
main_export ==
    /\ export_state = NotCalled
    /\ \E threshold \in Thresholds : export_high_confidence_matches(threshold)

Next ==
    \/ load_dictionary
    \/ load_motec_data
    \/ load_carsim_data
    \/ run_matching_begin
    \/ call_match_exact_names
    \/ call_match_accelerations
    \/ call_match_gyroscopes
    \/ call_match_wheel_speeds
    \/ call_match_suspension
    \/ call_match_brake_pressure
    \/ call_match_rotor_temperatures
    \/ call_match_engine_powertrain
    \/ call_match_gps
    \/ call_match_velocity
    \/ call_match_fuel
    \/ call_match_distance
    \/ call_match_steering
    \/ run_matching_return
    \/ save_results
    \/ main_export

Spec == Init /\ [][Next]_vars

\* the next statement of a run_matching call that has been entered
RunStep ==
    \/ call_match_exact_names
    \/ call_match_accelerations
    \/ call_match_gyroscopes
    \/ call_match_wheel_speeds
    \/ call_match_suspension
    \/ call_match_brake_pressure
    \/ call_match_rotor_temperatures
    \/ call_match_engine_powertrain
    \/ call_match_gps
    \/ call_match_velocity
    \/ call_match_fuel
    \/ call_match_distance
    \/ call_match_steering
    \/ run_matching_return

\* the matcher up to the return of run_matching
NextRun ==
    \/ load_dictionary
    \/ load_motec_data
    \/ load_carsim_data
    \/ run_matching_begin
    \/ RunStep

\* run_matching is straight-line synchronous code: once entered, its next statement
\* is executed
SpecRun == Init /\ [][NextRun]_vars /\ WF_vars(RunStep)

\* the exporter alone, on any match table
InitExport ==
    /\ Constructed
    /\ matched_file \in {[exists |-> TRUE, rows |-> t] : t \in ExportTables}
    /\ NoTextCall

NextExport == \E threshold \in Thresholds : export_high_confidence_matches(threshold)

SpecExport == InitExport /\ [][NextExport]_vars

\* a text helper called on its own, with text1 (and text2) as arguments
Return(helper, value) ==
    /\ returned' = [helper |-> helper, value |-> value]
    /\ UNCHANGED <<text1, text2, matched_file>>
    /\ UNCHANGED matcher_vars
    /\ UNCHANGED export_vars

call_normalize_text == Return("normalize_text", normalize_text(text1))

call_extract_tokens == Return("extract_tokens", extract_tokens(text1))

call_extract_position == Return("extract_position", extract_position(text1))

call_map_position_motec_to_carsim ==
    /\ returned.helper = "extract_position"
    /\ Return("map_position_motec_to_carsim", map_position_motec_to_carsim(returned.value))

call_semantic_similarity ==
    Return("semantic_similarity", semantic_similarity(text1, text2))

InitText ==
    /\ Constructed
    /\ matched_file = NoFile
    /\ text1 \in Texts
    /\ text2 \in ComparedTexts
    /\ returned = NotReturned

NextText ==
    \/ call_normalize_text
    \/ call_extract_tokens
    \/ call_extract_position
    \/ call_map_position_motec_to_carsim
    \/ call_semantic_similarity

SpecText == InitText /\ [][NextText]_vars

-----------------------------------------------------------------------------
(* Properties of the exporter's resolve step *)

\* the match table as the exporter reads it
TableRows == read_csv(matched_file.rows)

ExportReturned == export_state.status # "not called"

ExportComplete == export_state.status = "EXPORT COMPLETE"

\* what identifies a match in the kept and the skipped list alike
Key(row) == <<row.Motec_Variable, row.CarSim_Variable, row.Confidence>>

CountKey(rows, key) == Cardinality({i \in DOMAIN rows : Key(rows[i]) = key})

\* the positions of the table's rows that have the target and clear the threshold
Candidates(target) ==
    {i \in DOMAIN TableRows :
        /\ TableRows[i].CarSim_Variable = target
        /\ TableRows[i].Confidence >= confidence_threshold}

\* C1: after the resolve step (filter, sort, walk) no two kept matches have the same
\* target (CarSim) name.
C1_OneKeptMatchPerTarget ==
    \A i, j \in DOMAIN unique_matches :
        i # j => unique_matches[i].CarSim_Variable # unique_matches[j].CarSim_Variable

\* C1 witness: a resolve that kept two targets and skipped a duplicate
C1_Witness ==
    /\ ExportComplete
    /\ Len(unique_matches) >= 2
    /\ skipped_matches # <<>>

\* C2: the kept list and the skipped list together hold exactly the matches whose
\* confidence is >= the threshold, each exactly once; a match below the threshold
\* is in neither list, and one equal to the threshold is not dropped.
C2_KeptAndSkippedPartitionFiltered ==
    ExportReturned =>
        \A key \in {Key(TableRows[i]) : i \in DOMAIN TableRows}
                   \cup {Key(unique_matches[i]) : i \in DOMAIN unique_matches}
                   \cup {Key(skipped_matches[i]) : i \in DOMAIN skipped_matches} :
            CountKey(unique_matches, key) + CountKey(skipped_matches, key)
                = (IF key[3] >= confidence_threshold THEN CountKey(TableRows, key) ELSE 0)

\* C2 witness: a table with a match below the threshold, a kept match exactly at the
\* threshold and a skipped match
C2_Witness ==
    /\ ExportComplete
    /\ \E i \in DOMAIN TableRows : TableRows[i].Confidence < confidence_threshold
    /\ \E i \in DOMAIN unique_matches : unique_matches[i].Confidence = confidence_threshold
    /\ skipped_matches # <<>>

\* C3: for each target with a match at or above the threshold, the one kept match for
\* that target has the highest confidence among the target's matches at or above the
\* threshold, and every other such match is in the skipped list with the duplicate
\* reason.
C3_BestMatchKeptOthersSkipped ==
    ExportReturned =>
        \A target \in {TableRows[i].CarSim_Variable : i \in DOMAIN TableRows} :
            Candidates(target) # {} =>
                LET kept == {i \in DOMAIN unique_matches :
                                unique_matches[i].CarSim_Variable = target}
                    skipped == {i \in DOMAIN skipped_matches :
                                   skipped_matches[i].CarSim_Variable = target}
                IN  /\ Cardinality(kept) = 1
                    /\ \A k \in kept : \A i \in Candidates(target) :
                           unique_matches[k].Confidence >= TableRows[i].Confidence
                    /\ Cardinality(skipped) = Cardinality(Candidates(target)) - 1
                    /\ \A i \in skipped :
                           skipped_matches[i].Reason = "Duplicate CarSim output"

\* C3 witness: two matches for one target, at 1.0 and at 0.9, both at or above the
\* threshold, the lower one skipped
C3_Witness ==
    /\ ExportComplete
    /\ \E i, j \in DOMAIN TableRows :
          /\ TableRows[i].CarSim_Variable = TableRows[j].CarSim_Variable
          /\ TableRows[i].Confidence = 100
          /\ TableRows[j].Confidence = 90
          /\ confidence_threshold <= 90
          /\ i > j
    /\ \E i \in DOMAIN skipped_matches : skipped_matches[i].Confidence = 90

\* C5: of two resolves of one match table, the one with the higher threshold keeps
\* no more matches than the other.
C5_ThresholdMonotonicity ==
    (ExportReturned /\ previous_export.called) =>
        /\ previous_export.threshold <= confidence_threshold
               => Len(unique_matches) <= previous_export.kept
        /\ confidence_threshold <= previous_export.threshold
               => previous_export.kept <= Len(unique_matches)

\* C5 witness: the threshold was raised and fewer matches were kept
C5_Witness ==
    /\ ExportReturned
    /\ previous_export.called
    /\ previous_export.threshold < confidence_threshold
    /\ Len(unique_matches) < previous_export.kept
    /\ Len(unique_matches) > 0

-----------------------------------------------------------------------------
(* Properties of the matcher *)

\* the match types in the order the orchestrator is to run their passes
PassOrder ==
    << "Exact", "Acceleration", "Gyroscope", "Wheel", "Suspension", "Brake",
       "Temperature", "Engine/Powertrain", "GPS", "Velocity", "Fuel", "Distance",
       "Steering" >>

PassOf(match_type) == CHOOSE k \in DOMAIN PassOrder : PassOrder[k] = match_type

\* how many rows of all_matches are of the type and join the two names
Emitted(match_type, motec_var, carsim_var) ==
    Cardinality({i \in DOMAIN all_matches :
                    /\ all_matches[i].Match_Type = match_type
                    /\ all_matches[i].Motec_Variable = motec_var
                    /\ all_matches[i].CarSim_Variable = carsim_var})

\* the first position of the row in the emission order
EmissionIndex(row) ==
    CHOOSE i \in DOMAIN matches :
        /\ matches[i] = row
        /\ \A j \in 1..(i - 1) : matches[j] # row

\* C4 (as claimed): of several matches for one target that share the kept match's
\* confidence, the one emitted earliest is the one kept.
C4_EarliestTieKept ==
    ExportComplete =>
        \A k \in DOMAIN unique_matches : \A i \in DOMAIN matches :
            (/\ matches[i].CarSim_Variable = unique_matches[k].CarSim_Variable
             /\ matches[i].Confidence = unique_matches[k].Confidence)
                => EmissionIndex(unique_matches[k]) <= i

\* the exact pass has returned and the next pass has not: all_matches is what the
\* exact pass emitted
ExactPassReturned == run_pc = PassOf("Exact") + 1

\* for each pair of header names of the sessions, whether the two are equal once both
\* are lowercased and stripped of every character outside [a-z0-9]
NormalizedEqual ==
    [pair \in (UNION {Range(Schemas[g].motec) : g \in DOMAIN Schemas})
               \X (UNION {Range(Schemas[g].carsim) : g \in DOMAIN Schemas}) |->
        normalize_text(pair[1]) = normalize_text(pair[2])]

\* C6: the exact pass emits exactly one match for each pair of a Motec header and a
\* CarSim header whose normalized names are equal, none for any other pair, and each
\* with confidence 1.0 and type Exact.
C6_ExactPassPairs ==
    ExactPassReturned =>
        /\ \A i \in DOMAIN motec_headers : \A j \in DOMAIN carsim_headers :
               Emitted("Exact", motec_headers[i], carsim_headers[j])
                   = (IF NormalizedEqual[<<motec_headers[i], carsim_headers[j]>>]
                      THEN 1 ELSE 0)
        /\ \A i \in DOMAIN all_matches :
               /\ all_matches[i].Match_Type = "Exact"
               /\ all_matches[i].Confidence = 100
               /\ InList(all_matches[i].Motec_Variable, motec_headers)
               /\ InList(all_matches[i].CarSim_Variable, carsim_headers)

\* C6 witness: an exact match of two names that differ as written, beside a header
\* that has no exact match
C6_Witness ==
    /\ ExactPassReturned
    /\ \E i \in DOMAIN all_matches :
          /\ all_matches[i].Match_Type = "Exact"
          /\ all_matches[i].Motec_Variable # all_matches[i].CarSim_Variable
    /\ \E j \in DOMAIN carsim_headers :
          \A i \in DOMAIN motec_headers : Emitted("Exact", motec_headers[i], carsim_headers[j]) = 0

IsPrefix(a, b) == Len(a) <= Len(b) /\ SubSeq(b, 1, Len(a)) = a

\* C7: every step of the orchestration keeps the matches it has and appends, after
\* them, only matches of the pass whose turn it is in the order Exact, acceleration,
\* gyroscope, wheel, suspension, brake, rotor, engine, GPS, velocity, fuel, distance,
\* steering; what the run returns is that list.
C7_PassesAppendInOrder ==
    [][ /\ (run_pc \in DOMAIN PassOrder /\ run_pc' = run_pc + 1) =>
             /\ IsPrefix(all_matches, all_matches')
             /\ \A i \in (Len(all_matches) + 1)..Len(all_matches') :
                    all_matches'[i].Match_Type = PassOrder[run_pc]
        /\ (run_pc = Len(PassOrder) + 1 /\ run_pc' = run_pc + 1) =>
             /\ all_matches' = all_matches
             /\ matches' = all_matches
      ]_vars

\* C7 witness: a finished run whose list holds matches of two passes
C7_Witness ==
    /\ run_matching_done
    /\ \E i, j \in DOMAIN matches :
          /\ matches[i].Match_Type = "Wheel"
          /\ matches[j].Match_Type = "Suspension"

\* the rule family of the type proposes the CarSim name for the Motec name
Proposes(match_type, motec_var, carsim_var) ==
    LET pos == extract_position(motec_var)
        ByTable(table) == \E k \in DOMAIN table :
                              /\ Contains(table[k].motec, motec_var)
                              /\ InList(carsim_var, table[k].carsim)
        ByPatterns(table) == \E k \in DOMAIN table :
                                 /\ AnyIn(table[k].motec, motec_var)
                                 /\ InList(carsim_var, table[k].carsim)
        AtPosition(substring, templates) ==
            /\ Contains(substring, motec_var)
            /\ pos \in DOMAIN position_map
            /\ \E t \in templates : carsim_var = t \o position_map[pos]
    IN  CASE match_type = "Exact" -> normalize_text(motec_var) = normalize_text(carsim_var)
          [] match_type = "Acceleration" -> ByPatterns(accel_patterns)
          [] match_type = "Gyroscope" -> ByPatterns(gyro_patterns)
          [] match_type = "Wheel" -> AtPosition(<<"W","h","e","e","l"," ","S","p","e","e","d">> (* Wheel Speed *), {<<"A","V","y","_">> (* AVy_ *)})
          [] match_type = "Suspension" -> AtPosition(<<"S","u","s","p"," ","P","o","s">> (* Susp Pos *), {<<"J","n","c","_">> (* Jnc_ *), <<"C","m","p","T","_">> (* CmpT_ *)})
          [] match_type = "Brake" ->
                 \E k \in DOMAIN brake_mappings :
                     /\ Contains(brake_mappings[k].motec, motec_var)
                     /\ \E p \in Range(brake_mappings[k].positions) :
                            carsim_var = <<"P","b","k","C","h","_">> (* PbkCh_ *) \o p
          [] match_type = "Temperature" -> AtPosition(<<"R","o","t","o","r"," ","T","e","m","p">> (* Rotor Temp *), {<<"T","_","R","t","r","_">> (* T_Rtr_ *)})
          [] match_type = "Engine/Powertrain" -> ByTable(engine_mappings)
          [] match_type = "GPS" -> ByTable(gps_mappings)
          [] match_type = "Velocity" -> ByTable(velocity_mappings)
          [] match_type = "Fuel" -> ByTable(fuel_mappings)
          [] match_type = "Distance" -> ByTable(distance_mappings)
          [] match_type = "Steering" ->
                 /\ (Contains(<<"S","t","e","e","r","e","d"," ","A","n","g","l","e">> (* Steered Angle *), motec_var)
                     \/ Contains(<<"S","t","e","e","r"," ","A","n","g","l","e">> (* Steer Angle *), motec_var))
                 /\ \E k \in DOMAIN steering_vars : steering_vars[k][1] = carsim_var

\* the header names of the sessions
MotecNames == UNION {Range(Schemas[g].motec) : g \in DOMAIN Schemas}

CarsimNames == UNION {Range(Schemas[g].carsim) : g \in DOMAIN Schemas}

\* Proposes, computed once for every pass and every pair of header names
ProposedPairs ==
    [k \in DOMAIN PassOrder |->
        [motec_var \in MotecNames |->
            [carsim_var \in CarsimNames |-> Proposes(PassOrder[k], motec_var, carsim_var)]]]

\* the name is the Motec or the CarSim variable of a match of an earlier pass
ClaimedBefore(match_type, name) ==
    \E i \in DOMAIN all_matches :
        /\ PassOf(all_matches[i].Match_Type) < PassOf(match_type)
        /\ name \in {all_matches[i].Motec_Variable, all_matches[i].CarSim_Variable}

\* C8: what a pass emits does not depend on what earlier passes emitted: in the list
\* a run returns, every pair of a Motec header and a CarSim header that its rules propose
\* has a match of the pass, also when an earlier pass has already matched the Motec
\* or the CarSim name, and the pass has matched nothing else.
C8_PassesIgnoreEarlierMatches ==
    run_matching_done =>
        \A k \in DOMAIN PassOrder :
            {<<all_matches[i].Motec_Variable, all_matches[i].CarSim_Variable>> :
                i \in {n \in DOMAIN all_matches : all_matches[n].Match_Type = PassOrder[k]}}
            = {pair \in Range(motec_headers) \X Range(carsim_headers) :
                  ProposedPairs[k][pair[1]][pair[2]]}

\* C8 witness: a finished run in which the engine pass matched a Motec name and a
\* CarSim name that the exact pass had matched
C8_Witness ==
    /\ run_matching_done
    /\ \E i \in DOMAIN all_matches :
          /\ all_matches[i].Match_Type = "Engine/Powertrain"
          /\ ClaimedBefore("Engine/Powertrain", all_matches[i].Motec_Variable)
          /\ ClaimedBefore("Engine/Powertrain", all_matches[i].CarSim_Variable)

\* the candidate lists of the rule tables, each with the test of its Motec name
CandidateLists ==
    [k \in DOMAIN accel_patterns |->
        <<"Acceleration", accel_patterns[k].motec, accel_patterns[k].carsim>>]
    \o [k \in DOMAIN gyro_patterns |->
        <<"Gyroscope", gyro_patterns[k].motec, gyro_patterns[k].carsim>>]
    \o [k \in DOMAIN engine_mappings |->
        <<"Engine/Powertrain", <<engine_mappings[k].motec>>, engine_mappings[k].carsim>>]
    \o [k \in DOMAIN gps_mappings |->
        <<"GPS", <<gps_mappings[k].motec>>, gps_mappings[k].carsim>>]
    \o [k \in DOMAIN velocity_mappings |->
        <<"Velocity", <<velocity_mappings[k].motec>>, velocity_mappings[k].carsim>>]

\* for each candidate list and each Motec header name of the sessions, whether the
\* name contains one of the list's Motec patterns
CandidateSource ==
    [k \in DOMAIN CandidateLists |->
        [motec_var \in MotecNames |-> AnyIn(CandidateLists[k][2], motec_var)]]

\* C10: every match has a Motec header as its source and a CarSim header as its
\* target; a candidate that is not a CarSim header gives no match, and the candidates
\* listed after it are still matched when they are CarSim headers.
C10_AbsentCandidatesSkipped ==
    run_matching_done =>
        /\ \A i \in DOMAIN all_matches :
               /\ InList(all_matches[i].Motec_Variable, motec_headers)
               /\ InList(all_matches[i].CarSim_Variable, carsim_headers)
        /\ \A k \in DOMAIN CandidateLists :
               \A i \in DOMAIN motec_headers : \A c \in DOMAIN CandidateLists[k][3] :
                   (/\ CandidateSource[k][motec_headers[i]]
                    /\ InList(CandidateLists[k][3][c], carsim_headers))
                       => Emitted(CandidateLists[k][1], motec_headers[i],
                                  CandidateLists[k][3][c]) = 1

\* C10 witness: a finished run with an engine match for the second candidate of a
\* list whose first candidate is not a CarSim header
C10_Witness ==
    /\ run_matching_done
    /\ ~InList(<<"T","h","r","o","t","t","l","e">> (* Throttle *), carsim_headers)
    /\ \E i \in DOMAIN all_matches :
          /\ all_matches[i].Match_Type = "Engine/Powertrain"
          /\ all_matches[i].CarSim_Variable = <<"T","h","r","_","E","n","g">> (* Thr_Eng *)

-----------------------------------------------------------------------------
(* Properties of the text helpers *)

Returned(helper) == returned.helper = helper

\* the score of text2 against text1, the arguments exchanged
ExchangedScore == semantic_similarity(text2, text1)

\* C14: the similarity of two texts is the similarity of the two in the other order,
\* and lies between 0 and 1.
C14_SimilaritySymmetricBounded ==
    Returned("semantic_similarity") =>
        /\ returned.value = ExchangedScore
        /\ returned.value >= 0
        /\ returned.value <= 100

\* C14 witness: two different texts have been scored above 0
C14_Witness ==
    /\ Returned("semantic_similarity")
    /\ text1 # text2
    /\ returned.value > 0

\* C15: normalizing a normalized text changes nothing, and a normalized text has
\* only characters of [a-z0-9].
C15_NormalizeIdempotent ==
    Returned("normalize_text") =>
        /\ normalize_text(returned.value) = returned.value
        /\ \A i \in DOMAIN returned.value :
               returned.value[i] \in Range(LowerLetters) \cup Range(Digits)

\* C15 witness: a text with capitals and other characters has been normalized to
\* a text that is not empty
C15_Witness ==
    /\ Returned("normalize_text")
    /\ \E i \in DOMAIN text1 : text1[i] \in Range(UpperLetters)
    /\ \E i \in DOMAIN text1 : text1[i] \in {" ", "(", ")"}
    /\ returned.value # <<>>

\* the number of "(" less the number of ")" in the first n characters of s
ParenDepth(s) ==
    LET F[n \in 0..Len(s)] ==
            IF n = 0 THEN 0
            ELSE F[n - 1] + (IF s[n] = "(" THEN 1 ELSE IF s[n] = ")" THEN -1 ELSE 0)
    IN  F

\* every ")" of s closes a "(" of s, and every "(" of s is closed
Balanced(s) == /\ \A n \in 0..Len(s) : ParenDepth(s)[n] >= 0
               /\ ParenDepth(s)[Len(s)] = 0

\* the i-th character of s lies between a "(" and the ")" that closes it
Parenthesized(s, i) ==
    \E j \in 1..(i - 1) : \E k \in (i + 1)..Len(s) :
        /\ s[j] = "("
        /\ s[k] = ")"
        /\ Balanced(SubSeq(s, j + 1, k - 1))

\* s without the characters that lie inside a parenthesized substring
Unparenthesized(s) ==
    LET F[n \in 0..Len(s)] ==
            IF n = 0 THEN <<>>
            ELSE IF Parenthesized(s, n) THEN F[n - 1] ELSE Append(F[n - 1], s[n])
    IN  F[Len(s)]

\* C16 (as claimed): the tokens of a text hold no stopword and nothing of the
\* characters inside a parenthesized substring of the text, and a text that
\* normalizes to nothing has no tokens.
C16_TokensIgnoreParenthesized ==
    Returned("extract_tokens") =>
        /\ \A i \in DOMAIN returned.value : returned.value[i] \notin stopwords
        /\ returned.value = extract_tokens(Unparenthesized(text1))
        /\ (normalize_text(text1) = <<>> => returned.value = <<>>)

\* two tokens are in the same semantic-equivalence class
SameClass(a, b) ==
    \E e \in DOMAIN semantic_equivalents :
        LET class == {semantic_equivalents[e].key}
                        \cup Range(semantic_equivalents[e].equivalents)
        IN  a \in class /\ b \in class

\* C18: with non-empty token sets T1 and T2 the score is min(J + B, 1.0), where J is
\* |T1 n T2| / |T1 u T2| and B is min(0.1 N, 0.3) for N unordered pairs of distinct
\* tokens, one of each set, of one class; with an empty token set the score is 0.
C18_ScoreFormula ==
    Returned("semantic_similarity") =>
        LET T1 == Range(extract_tokens(text1))
            T2 == Range(extract_tokens(text2))
            N == Cardinality({{a, b} : <<a, b>> \in
                                 {pair \in T1 \X T2 :
                                     pair[1] # pair[2] /\ SameClass(pair[1], pair[2])}})
            B == IF 10 * N <= 30 THEN 10 * N ELSE 30
        IN  IF T1 = {} \/ T2 = {} THEN returned.value = 0
            ELSE /\ 100 * Cardinality(T1 \cap T2) + B * Cardinality(T1 \cup T2)
                        <= 100 * Cardinality(T1 \cup T2)
                    => returned.value * Cardinality(T1 \cup T2)
                         = 100 * Cardinality(T1 \cap T2) + B * Cardinality(T1 \cup T2)
                 /\ 100 * Cardinality(T1 \cap T2) + B * Cardinality(T1 \cup T2)
                        > 100 * Cardinality(T1 \cup T2)
                    => returned.value = 100

\* C18 witness: two texts with different tokens of one class have been scored 0.1
C18_Witness ==
    /\ Returned("semantic_similarity")
    /\ extract_tokens(text1) # <<>>
    /\ extract_tokens(text2) # <<>>
    /\ Range(extract_tokens(text1)) \cap Range(extract_tokens(text2)) = {}
    /\ returned.value = 10

\* the source-schema code of each target-schema token
SourceCodeOf ==
    (<<"L","1">> (* L1 *) :> <<"F","L">> (* FL *)) @@ (<<"R","1">> (* R1 *) :> <<"F","R">> (* FR *)) @@ (<<"L","2">> (* L2 *) :> <<"R","L">> (* RL *)) @@ (<<"R","2">> (* R2 *) :> <<"R","R">> (* RR *))

\* the tokens of the set that the name contains, whatever the case
TokensIn(tokens, name) == {t \in tokens : Contains(t, str_upper(name))}

\* C19: extract_position answers "" or one of FL, FR, RL, RR; for a name with a
\* target-schema token and no source-schema token it answers the source-schema code
\* of a target-schema token of the name; the translation of an answer that is not
\* empty is not empty.
C19_PositionCanonical ==
    /\ Returned("extract_position") =>
           /\ returned.value \in {<<>>, <<"F","L">> (* FL *), <<"F","R">> (* FR *), <<"R","L">> (* RL *), <<"R","R">> (* RR *)}
           /\ (/\ TokensIn(DOMAIN SourceCodeOf, text1) # {}
               /\ TokensIn({<<"F","L">> (* FL *), <<"F","R">> (* FR *), <<"R","L">> (* RL *), <<"R","R">> (* RR *)}, text1) = {})
                  => returned.value \in
                         {SourceCodeOf[t] : t \in TokensIn(DOMAIN SourceCodeOf, text1)}
    /\ (Returned("map_position_motec_to_carsim") /\ extract_position(text1) # <<>>)
           => returned.value # <<>>

\* C19 witness: a name with the token L1 and no source-schema token has been
\* answered FL
C19_Witness ==
    /\ Returned("extract_position")
    /\ Contains(<<"L","1">> (* L1 *), text1)
    /\ TokensIn({<<"F","L">> (* FL *), <<"F","R">> (* FR *), <<"R","L">> (* RL *), <<"R","R">> (* RR *)}, text1) = {}
    /\ returned.value = <<"F","L">> (* FL *)

-----------------------------------------------------------------------------
(* Properties of the position-keyed rule families *)

\* the position code extracted from each source name of the sessions
PositionOf == [m \in MotecNames |-> extract_position(m)]

\* the fixed translation of a source position code, as the claims state it
TargetCodeOf ==
    (<<"F","L">> (* FL *) :> <<"L","1">> (* L1 *)) @@ (<<"F","R">> (* FR *) :> <<"R","1">> (* R1 *)) @@ (<<"R","L">> (* RL *) :> <<"L","2">> (* L2 *)) @@ (<<"R","R">> (* RR *) :> <<"R","2">> (* R2 *))

\* the rows of one family for one source, in emission order
RowsOf(match_type, motec_var) ==
    SelectSeq(all_matches,
              LAMBDA row : row.Match_Type = match_type /\ row.Motec_Variable = motec_var)

\* the targets and confidences of a sequence of rows
TargetsOf(rows) == {<<rows[i].CarSim_Variable, rows[i].Confidence>> : i \in DOMAIN rows}

\* C11: when run_matching has returned, every source header containing "Wheel Speed"
\* whose extracted position p is FL, FR, RL or RR has, if AVy_<q> (q the translation
\* of p) is a target header, exactly one Wheel match, to AVy_<q>, with confidence 1.0
\* and a note containing "<p>=<q>", and otherwise no Wheel match.
C11_WheelSpeedRule ==
    run_matching_done =>
        \A i \in DOMAIN motec_headers :
            LET m == motec_headers[i]
                p == PositionOf[m]
                rows == RowsOf("Wheel", m)
            IN  (Contains(<<"W","h","e","e","l"," ","S","p","e","e","d">> (* Wheel Speed *), m) /\ p \in DOMAIN TargetCodeOf) =>
                    IF InList(<<"A","V","y","_">> (* AVy_ *) \o TargetCodeOf[p], carsim_headers)
                    THEN /\ Len(rows) = 1
                         /\ rows[1].CarSim_Variable = <<"A","V","y","_">> (* AVy_ *) \o TargetCodeOf[p]
                         /\ rows[1].Confidence = 100
                         /\ Contains(p \o <<"=">> (* = *) \o TargetCodeOf[p], rows[1].Notes)
                    ELSE rows = <<>>

\* a finished run in which "FL Wheel Speed" met the target header AVy_L1
C11_Witness ==
    /\ run_matching_done
    /\ InList(<<"F","L"," ","W","h","e","e","l"," ","S","p","e","e","d">> (* FL Wheel Speed *), motec_headers)
    /\ InList(<<"A","V","y","_","L","1">> (* AVy_L1 *), carsim_headers)
    /\ Len(RowsOf("Wheel", <<"F","L"," ","W","h","e","e","l"," ","S","p","e","e","d">> (* FL Wheel Speed *))) = 1

\* C12: when run_matching has returned, every source header containing "Susp Pos"
\* with a resolvable position, translated to q, has as its Suspension matches exactly
\* one to Jnc_<q> with confidence 1.0 if Jnc_<q> is a target header, and one to
\* CmpT_<q> with confidence 0.95 if CmpT_<q> is a target header: two when both are
\* present, the one present when only one is.
C12_SuspensionRule ==
    run_matching_done =>
        \A i \in DOMAIN motec_headers :
            LET m == motec_headers[i]
                p == PositionOf[m]
                rows == RowsOf("Suspension", m)
            IN  (Contains(<<"S","u","s","p"," ","P","o","s">> (* Susp Pos *), m) /\ p \in DOMAIN TargetCodeOf) =>
                    LET jnc == <<"J","n","c","_">> (* Jnc_ *) \o TargetCodeOf[p]
                        cmp == <<"C","m","p","T","_">> (* CmpT_ *) \o TargetCodeOf[p]
                        expected ==
                            (IF InList(jnc, carsim_headers) THEN {<<jnc, 100>>} ELSE {})
                            \cup
                            (IF InList(cmp, carsim_headers) THEN {<<cmp, 95>>} ELSE {})
                    IN  /\ TargetsOf(rows) = expected
                        /\ Len(rows) = Cardinality(expected)

\* a finished run in which "FL Susp Pos" met both Jnc_L1 and CmpT_L1
C12_Witness ==
    /\ run_matching_done
    /\ InList(<<"J","n","c","_","L","1">> (* Jnc_L1 *), carsim_headers)
    /\ InList(<<"C","m","p","T","_","L","1">> (* CmpT_L1 *), carsim_headers)
    /\ Len(RowsOf("Suspension", <<"F","L"," ","S","u","s","p"," ","P","o","s">> (* FL Susp Pos *))) = 2

\* the target templates of the position-keyed families
Templates ==
    [Wheel |-> {<<"A","V","y","_">> (* AVy_ *)}, Suspension |-> {<<"J","n","c","_">> (* Jnc_ *), <<"C","m","p","T","_">> (* CmpT_ *)},
     Brake |-> {<<"P","b","k","C","h","_">> (* PbkCh_ *)}, Temperature |-> {<<"T","_","R","t","r","_">> (* T_Rtr_ *)}]

\* a row whose target is a template of its family filled with the translated
\* position extracted from its source name
FilledFromSource(row) ==
    LET p == PositionOf[row.Motec_Variable]
    IN  /\ p \in DOMAIN TargetCodeOf
        /\ \E t \in Templates[row.Match_Type] :
               row.CarSim_Variable = t \o TargetCodeOf[p]

\* C13 as stated: every match of the wheel-speed, suspension, brake-pressure and
\* rotor-temperature families has its family's template filled with the translated
\* position extracted from its source name, and a source name without a position
\* code has no match in these families.
C13_TargetFromExtractedPosition ==
    \A i \in DOMAIN all_matches :
        all_matches[i].Match_Type \in DOMAIN Templates => FilledFromSource(all_matches[i])

\* the positions of the axle a brake source names, as the amended claim states them
AxlePositions ==
    (<<"B","r","a","k","e"," ","P","r","e","s","s","u","r","e"," ","F","r","o","n","t">> (* Brake Pressure Front *) :> {<<"L","1">> (* L1 *), <<"R","1">> (* R1 *)})
    @@ (<<"B","r","a","k","e"," ","P","r","e","s","s","u","r","e"," ","R","e","a","r">> (* Brake Pressure Rear *) :> {<<"L","2">> (* L2 *), <<"R","2">> (* R2 *)})

\* C13 (amended): every match of the wheel-speed, suspension and rotor-temperature
\* families has its family's template filled with the translated position extracted
\* from its source name; every Brake match has PbkCh_ filled with a position of the
\* axle its source name names (Front: L1, R1; Rear: L2, R2), whatever position code
\* the source name holds.
C13_TargetFromPositionOrAxle ==
    \A i \in DOMAIN all_matches :
        LET row == all_matches[i]
        IN  /\ row.Match_Type \in {"Wheel", "Suspension", "Temperature"} =>
                   FilledFromSource(row)
            /\ row.Match_Type = "Brake" =>
                   \E axle \in DOMAIN AxlePositions :
                       /\ Contains(axle, row.Motec_Variable)
                       /\ \E q \in AxlePositions[axle] :
                              row.CarSim_Variable = <<"P","b","k","C","h","_">> (* PbkCh_ *) \o q

\* a finished run with a Brake match of a source without a position code next to a
\* match of a family that extracts the position
C13_Witness ==
    /\ run_matching_done
    /\ \E i \in DOMAIN all_matches :
           /\ all_matches[i].Match_Type = "Brake"
           /\ ~FilledFromSource(all_matches[i])
    /\ \E i \in DOMAIN all_matches :
           all_matches[i].Match_Type \in {"Wheel", "Suspension", "Temperature"}

-----------------------------------------------------------------------------
(* Properties of a whole run *)

\* C17: no pass can fail. No call of run_matching leaves it by an exception, every
\* pass that is entered is followed by the next statement of run_matching, and a
\* run that has been entered returns, whatever the header lists and the dictionary.
C17_NoPassFails ==
    /\ [](run_pc # Propagated)
    /\ [][(run_pc \in 1..Len(run_matching_calls)) => (run_pc' = run_pc + 1)]_vars
    /\ (run_pc = 1) ~> run_matching_done

\* a run that returned the empty MatchSet for a source header without a position
\* code, with target headers and without a dictionary
C17_Witness ==
    /\ run_matching_done
    /\ dictionary = NoDictionary
    /\ InList(<<"A","v","g"," ","W","h","e","e","l"," ","S","p","e","e","d">> (* Avg Wheel Speed *), motec_headers)
    /\ carsim_headers # <<>>
    /\ matches = <<>>

-----------------------------------------------------------------------------
(* Properties of the candidate-list rule families *)

\* the rule entries of the candidate-list families: the substrings that select a
\* source, the target candidates in listed order and their confidences
RuleEntries ==
    [Engine |-> [k \in DOMAIN engine_mappings |->
                    [motec |-> {engine_mappings[k].motec},
                     carsim |-> engine_mappings[k].carsim,
                     confidence |-> engine_mappings[k].confidence]],
     GPS |-> [k \in DOMAIN gps_mappings |->
                 [motec |-> {gps_mappings[k].motec},
                  carsim |-> gps_mappings[k].carsim,
                  confidence |-> gps_mappings[k].confidence]],
     Velocity |-> [k \in DOMAIN velocity_mappings |->
                      [motec |-> {velocity_mappings[k].motec},
                       carsim |-> velocity_mappings[k].carsim,
                       confidence |-> velocity_mappings[k].confidence]],
     Fuel |-> [k \in DOMAIN fuel_mappings |->
                  [motec |-> {fuel_mappings[k].motec},
                   carsim |-> fuel_mappings[k].carsim,
                   confidence |-> fuel_mappings[k].confidence]],
     Distance |-> [k \in DOMAIN distance_mappings |->
                      [motec |-> {distance_mappings[k].motec},
                       carsim |-> distance_mappings[k].carsim,
                       confidence |-> distance_mappings[k].confidence]],
     Steering |-> << [motec |-> {<<"S","t","e","e","r","e","d"," ","A","n","g","l","e">> (* Steered Angle *), <<"S","t","e","e","r"," ","A","n","g","l","e">> (* Steer Angle *)},
                      carsim |-> [k \in DOMAIN steering_vars |-> steering_vars[k][1]],
                      confidence |-> [k \in DOMAIN steering_vars |-> steering_vars[k][2]]] >>]

\* row i and row j of all_matches are the matches of one source for two candidates
\* of one rule entry, the candidate of row i listed before that of row j
ListedBefore(i, j) ==
    LET first == all_matches[i]
        second == all_matches[j]
    IN  /\ first.Match_Type \in DOMAIN RuleEntries
        /\ second.Match_Type = first.Match_Type
        /\ second.Motec_Variable = first.Motec_Variable
        /\ \E k \in DOMAIN RuleEntries[first.Match_Type] :
               LET entry == RuleEntries[first.Match_Type][k]
               IN  /\ \E sub \in entry.motec : Contains(sub, first.Motec_Variable)
                   /\ \E c, d \in DOMAIN entry.carsim :
                          /\ c < d
                          /\ first.CarSim_Variable = entry.carsim[c]
                          /\ first.Confidence = entry.confidence[c]
                          /\ second.CarSim_Variable = entry.carsim[d]
                          /\ second.Confidence = entry.confidence[d]

\* C20 as stated: whenever one source has matches for two candidates of the same
\* rule entry of the Engine, GPS, Velocity, Fuel, Distance and Steering families, the
\* candidate listed later has a lower confidence than the one listed before it.
C20_LaterCandidateLower ==
    run_matching_done =>
        \A i, j \in DOMAIN all_matches :
            ListedBefore(i, j) => all_matches[j].Confidence < all_matches[i].Confidence

-----------------------------------------------------------------------------
(* Properties of the exporter's early return *)

\* no row of the match table has a confidence of at least the threshold of the call
NoneMeetsThreshold ==
    \A i \in DOMAIN TableRows : TableRows[i].Confidence < confidence_threshold

\* C21: when the exporter has been called and no match of the match table has a
\* confidence >= the threshold, the call has ended with the status "No matches meet
\* the confidence threshold!", with no kept and no skipped match, and without
\* loading the source data or writing the output file.
C21_EmptyExportReturnsEarly ==
    (export_state # NotCalled /\ NoneMeetsThreshold) =>
        /\ export_state.status = "No matches meet the confidence threshold!"
        /\ unique_matches = <<>>
        /\ skipped_matches = <<>>
        /\ ~export_state.data_loaded
        /\ ~export_state.output_written

\* an exporter call on a table with rows, none of which meets the threshold
C21_Witness ==
    /\ export_state # NotCalled
    /\ TableRows # <<>>
    /\ NoneMeetsThreshold
    /\ export_state.status = "No matches meet the confidence threshold!"

-----------------------------------------------------------------------------
(* Properties of the tokenizer's single token *)

\* the normalized form of a text once its parenthesized parts are removed
NormalizedForm(text) == normalize_text(Unparenthesized(text))

\* C22: the tokenizer returns at most one token; the similarity score of two texts
\* is 0.0, 0.1 or 1.0; and, for texts whose parentheses are balanced, the score is
\* above 0.5 exactly when the two texts have the same normalized form after their
\* parenthesized parts are removed, that form being neither empty nor a stopword.
C22_SingleTokenScores ==
    /\ Returned("extract_tokens") => Len(returned.value) <= 1
    /\ Returned("semantic_similarity") =>
           /\ returned.value \in {0, 10, 100}
           /\ (Balanced(text1) /\ Balanced(text2)) =>
                  (returned.value > 50
                       <=> /\ NormalizedForm(text1) = NormalizedForm(text2)
                           /\ NormalizedForm(text1) # <<>>
                           /\ NormalizedForm(text1) \notin stopwords)

-----------------------------------------------------------------------------
(* Properties of the pairs a family proposes *)

\* no name is repeated in the list
NoRepeatedName(list) == \A i, j \in DOMAIN list : list[i] = list[j] => i = j

\* C23: with no repeated name in the source header list nor in the target header
\* list, no two matches of a run have the same type, the same source name and the
\* same target name: each family proposes a source-to-target pair at most once.
C23_FamilyProposesPairOnce ==
    (NoRepeatedName(motec_headers) /\ NoRepeatedName(carsim_headers)) =>
        \A i, j \in DOMAIN all_matches :
            (/\ all_matches[i].Match_Type = all_matches[j].Match_Type
             /\ all_matches[i].Motec_Variable = all_matches[j].Motec_Variable
             /\ all_matches[i].CarSim_Variable = all_matches[j].CarSim_Variable)
                => i = j

====
